---- MODULE Spec2Model ----
(***************************************************************************)
(* Canvas MCP server: the Canvas API client (timeout-bounded fetch, Link   *)
(* header pagination, the five client operations), the tool dispatcher     *)
(* and the HTTP security gate in front of the JSON-RPC endpoint.           *)
(***************************************************************************)
EXTENDS Integers, Sequences, FiniteSets, TLC

VARIABLES
    call,       \* the tools/call being served: transport, tool name, arguments, id
    pc,         \* position of the tool call: idle, dispatch, await, settled, replied
    frame,      \* the client operation that awaits the fetch in flight
    nextUrl,    \* getWithPagination: the URL of the request in flight
    results,    \* getWithPagination: the items accumulated so far
    inflight,   \* fetchWithTimeout: the request handed to fetch()
    timers,     \* fetchWithTimeout: number of armed setTimeout timers
    outcome,    \* handleToolCall: how it settled (returned content or thrown error)
    reply,      \* what the dispatch boundary answered
    logs,       \* console.log records written by the dispatch boundary
    reqLog,     \* history: every request handed to fetch() during this call
    served,     \* history: every page the upstream answered with status 2xx and a JSON list
    lastSettle, \* history: how the most recent fetchWithTimeout settled (status and body kind)
    courseLog,  \* history: per course of listUpcoming's loop, how its listAssignments ended
    env,        \* the HTTP server's environment: PORT, ALLOWED_ORIGINS, MCP_AUTH_TOKEN
    req,        \* the HTTP request being served: method, headers, query, body
    res,        \* the HTTP response sent for it: status and body
    checks,     \* history: the steps the request went through, in order
    opened      \* history: a streaming session was opened since the server started

gateVars == <<env, req, res, checks, opened>>

-----------------------------------------------------------------------------
(* Bounds of the model *)

\* the upstream stops advertising a next page after this many pages
MaxPages == 2
\* the upstream puts at most this many items on one page
MaxItems == 2
\* the user has at most this many active courses
MaxCourses == 2

-----------------------------------------------------------------------------
(* Values *)

Undef == [k |-> "undefined"]
Num(n) == [k |-> "num", n |-> n]
\* a string of decimal digits, by the number it spells
NumStr(n) == [k |-> "str", n |-> n]
EmptyStr == [k |-> "str", n |-> -1]
Null == [k |-> "null"]
Str(s) == [k |-> "str", s |-> s]
Date(t) == [k |-> "date", t |-> t]
Bool(b) == [k |-> "bool", b |-> b]
Arr(items) == [k |-> "arr", items |-> items]

\* a value is falsy when undefined, null, false, 0 or ""
Falsy(v) ==
    \/ v.k \in {"undefined", "null"}
    \/ (v.k = "num" /\ v.n = 0)
    \/ (v.k = "bool" /\ ~v.b)
    \/ v = EmptyStr
    \/ v = Str("")

Truthy(v) == ~Falsy(v)

\* v || null
OrNull(v) == IF Falsy(v) THEN Null ELSE v
\* v || false
OrFalse(v) == IF Falsy(v) THEN Bool(FALSE) ELSE v
\* a ?? b
Coalesce(a, b) == IF a.k \in {"undefined", "null"} THEN b ELSE a

\* what new Date() reads, in milliseconds
Now == 1000
\* 24 * 60 * 60 * 1000
DayMs == 86400000

\* Number(v) for the values above; NaN is modelled as -1, which equals no course id
ToNumber(v) ==
    IF v.k \in {"num", "str"} /\ v # EmptyStr THEN v.n
    ELSE IF v = EmptyStr THEN 0 ELSE -1

\* the configured Canvas API token and base URL host
ApiToken == "canvas-token"
BaseHost == "canvas.base"

\* an endpoint path under /api/v1: /courses, /courses/{course}/enrollments, ...
Path(ep, course) == [ep |-> ep, course |-> course]
CoursesPath == Path("/courses", Undef)

Url(host, path, q) == [k |-> "url", host |-> host, path |-> path, q |-> q]

\* request headers sent by every Canvas request of the client
CanvasHeaders == [Authorization |-> <<"Bearer", ApiToken>>, Accept |-> "application/json"]

\* the URLs the upstream may name in a Link header
LinkUrls ==
    { Url(BaseHost, CoursesPath, <<<<"page", "2">>, <<"per_page", "100">>>>),
      Url("other.host", CoursesPath, <<<<"page", "2">>>>) }

\* one comma-separated part of a Link header: <url>; rel="rel", or text the
\* pattern does not match
LinkPart(url, rel) == [k |-> "link", url |-> url, rel |-> rel]
GarbagePart == [k |-> "garbage"]
LinkParts ==
    {LinkPart(u, "next") : u \in LinkUrls}
        \cup {LinkPart(Url(BaseHost, CoursesPath, <<<<"page", "1">>>>), r) : r \in {"prev", "first"}}
        \cup {GarbagePart}

\* a Link header: absent (null), or its parts; <<>> is the empty string
NoHeader == [k |-> "null"]
Header(parts) == [k |-> "header", parts |-> parts]
LinkHeaders ==
    {NoHeader, Header(<<>>)}
        \cup {Header(<<p>>) : p \in LinkParts}
        \cup {Header(<<p, q>>) : p \in LinkParts, q \in LinkParts}

-----------------------------------------------------------------------------
(* CanvasClient.parseLinkHeader *)

RECURSIVE ParseParts(_, _)
ParseParts(parts, links) ==
    IF parts = <<>> THEN links
    ELSE LET part == Head(parts)
             upd == IF part.k = "link" /\ part.rel = "next" THEN part.url ELSE links
         IN ParseParts(Tail(parts), upd)

\* parseLinkHeader keeping a next URL only when it is on the host of the base URL
parseLinkHeader_SameHost(linkHeader) ==
    IF linkHeader.k = "null" \/ linkHeader.parts = <<>> THEN Undef
    ELSE LET next == ParseParts(linkHeader.parts, Undef)
         IN IF next # Undef /\ next.host # BaseHost THEN Undef ELSE next

\* returns links.next: Undef, or the URL of the last part whose rel is "next"
parseLinkHeader(linkHeader) ==
    IF linkHeader.k = "null" \/ linkHeader.parts = <<>> THEN Undef
    ELSE ParseParts(linkHeader.parts, Undef)

-----------------------------------------------------------------------------
(* Errors and fetch outcomes *)

\* an Error object: its code property ("" when it has none), its name, its message
Err(code, name, msg) == [k |-> "error", code |-> code, name |-> name, msg |-> msg]

\* what fetch() rejects with when the transport fails for a reason other than an abort
NetworkError == Err("", "TypeError", "fetch failed")
\* what fetch() rejects with when its signal is aborted
AbortError == Err("", "AbortError", "This operation was aborted")
\* results.push(...data) when data is not iterable, or a method missing on a non-array
NotIterable == Err("", "TypeError", "data is not iterable")

None == [k |-> "none"]
Response(status, body, link) == [k |-> "response", status |-> status, body |-> body, link |-> link]
Thrown(err) == [k |-> "throw", err |-> err]
Returned(value) == [k |-> "return", value |-> value]

\* Response.ok
Ok(response) == response.status >= 200 /\ response.status <= 299

ListBody(items) == [k |-> "list", items |-> items]
\* a body response.json() rejects
BadJson == [k |-> "badjson"]
\* bodies that are valid JSON but no array
ObjectBody == [k |-> "object"]
NullBody == [k |-> "null"]

Absent == "<absent>"

\* the raw course object the upstream holds under id i; odd ids omit enrollment_state
RawCourse(i) ==
    [id |-> i, name |-> "course", course_code |-> "code",
     enrollment_state |-> IF i % 2 = 1 THEN Absent ELSE "invited",
     workflow_state |-> "available"]

RECURSIVE RawCourses(_, _)
\* n raw courses with the ids from + 1 .. from + n
RawCourses(from, n) ==
    IF n = 0 THEN <<>> ELSE <<RawCourse(from + 1)>> \o RawCourses(from + 1, n - 1)

RECURSIVE CountItems(_)
CountItems(pages) ==
    IF pages = <<>> THEN 0 ELSE Len(Head(pages).items) + CountItems(Tail(pages))

\* whether a Link header names a next relation
AdvertisesNext(link) ==
    /\ link.k = "header"
    /\ \E i \in 1..Len(link.parts) : link.parts[i].k = "link" /\ link.parts[i].rel = "next"

\* the responses the upstream may give to a request of a paginated listing of
\* items, after it served pageNo pages holding the first from items: the next
\* at most MaxItems items, and a next link on at most MaxPages - 1 pages
PageResponses(items, from, pageNo) ==
    {Response(st, ListBody(SubSeq(items, from + 1, from + n)), l) :
        st \in {200}, n \in {m \in 0..MaxItems : from + m <= Len(items)},
        l \in {h \in LinkHeaders : AdvertisesNext(h) => pageNo + 1 < MaxPages}}
      \cup {Response(st, NullBody, NoHeader) : st \in {404, 500}}
      \cup {Response(200, b, NoHeader) : b \in {BadJson, ObjectBody, NullBody}}

-----------------------------------------------------------------------------
(* CanvasClient.fetchWithTimeout *)

\* setTimeout(() => controller.abort(), timeoutMs) and, in finally, clearTimeout
SetTimeout(armed) == armed + 1
\* ClearTimeout leaving the timer armed
ClearTimeout_Skip(armed) == armed
ClearTimeout(armed) == armed - 1

\* Request sent with the method POST
Request_Post(input, init) == [k |-> "request", url |-> input, method |-> "POST", headers |-> init]

\* fetch(input, { ...init, signal }): no method is given, so the request is a GET
Request(input, init) == [k |-> "request", url |-> input, method |-> "GET", headers |-> init]

\* the call up to its await: arms the timer and hands the request to fetch();
\* armed is the number of timers armed before the call
FetchWithTimeout(input, init, armed) ==
    /\ timers' = SetTimeout(armed)
    /\ inflight' = Request(input, init)

\* FetchCatch rethrowing whatever fetch() rejected with
FetchCatch_Rethrow(err) == err

\* the catch block: an abort becomes the timeout error, any other error is rethrown
FetchCatch(err) ==
    IF err.name = "AbortError" \/ err.code = "ABORT_ERR"
    THEN Err("timeout", "Error", "Canvas request timed out after timeoutMs")
    ELSE err

\* what fetch() may reject with: the AbortError when the timer fired first
\* (controller.abort()), or a transport error
FetchRejections == {AbortError, NetworkError}

\* how fetchWithTimeout may settle when the upstream may answer with one of responses
FetchSettles(responses) ==
    responses \cup {Thrown(FetchCatch(err)) : err \in FetchRejections}

-----------------------------------------------------------------------------
(* CanvasClient.getWithPagination *)

StatusText(status) ==
    CASE status = 404 -> "Canvas API error: 404"
      [] status = 500 -> "Canvas API error: 500"
      [] OTHER -> "Canvas API error"

\* the URL of the first request: the caller's params, then per_page=100
InitialUrl(endpoint, params) ==
    Url(BaseHost, endpoint, params \o <<<<"per_page", "100">>>>)

Continue(acc, next) == [k |-> "continue", results |-> acc, nextUrl |-> next]

\* PagStep with the new page put in front of the results instead of behind them
PagStep_Prepend(r, acc) ==
    IF r.k = "throw" THEN Thrown(r.err)
    ELSE IF ~Ok(r) THEN Thrown(Err("canvas_api_error", "Error", StatusText(r.status)))
    ELSE IF r.body.k = "badjson"
         THEN Thrown(Err("invalid_response", "Error", "Invalid Canvas API response"))
    ELSE IF r.body.k # "list" THEN Thrown(NotIterable)
    ELSE LET next == parseLinkHeader(r.link)
         IN IF next # Undef THEN Continue(r.body.items \o acc, next)
            ELSE Returned(r.body.items \o acc)

\* PagStep returning the results so far when a page fails
PagStep_ReturnPartial(r, acc) ==
    IF r.k = "throw" \/ ~Ok(r) \/ r.body.k # "list" THEN Returned(acc)
    ELSE LET next == parseLinkHeader(r.link)
         IN IF next # Undef THEN Continue(acc \o r.body.items, next)
            ELSE Returned(acc \o r.body.items)

\* PagStep without the response.ok test
PagStep_NoOkTest(r, acc) ==
    IF r.k = "throw" THEN Thrown(r.err)
    ELSE IF r.body.k = "badjson"
         THEN Thrown(Err("invalid_response", "Error", "Invalid Canvas API response"))
    ELSE IF r.body.k # "list" THEN Thrown(NotIterable)
    ELSE LET next == parseLinkHeader(r.link)
         IN IF next # Undef THEN Continue(acc \o r.body.items, next)
            ELSE Returned(acc \o r.body.items)

\* one turn of the while loop once fetchWithTimeout has settled with r, acc being
\* the results so far: throw, return the results, or go on with the next URL
PagStep(r, acc) ==
    IF r.k = "throw" THEN Thrown(r.err)
    ELSE IF ~Ok(r) THEN Thrown(Err("canvas_api_error", "Error", StatusText(r.status)))
    ELSE IF r.body.k = "badjson"
         THEN Thrown(Err("invalid_response", "Error", "Invalid Canvas API response"))
    ELSE IF r.body.k # "list" THEN Thrown(NotIterable)
    ELSE LET next == parseLinkHeader(r.link)
         IN IF next # Undef THEN Continue(acc \o r.body.items, next)
            ELSE Returned(acc \o r.body.items)

-----------------------------------------------------------------------------
(* CanvasClient.listCourses *)

\* course.enrollment_state || 'active'
OrActive(state) == IF state = Absent \/ state = "" THEN "active" ELSE state

NormalizeCourse(course) ==
    [id |-> course.id, name |-> course.name, course_code |-> course.course_code,
     enrollment_state |-> OrActive(course.enrollment_state)]

RECURSIVE MapCourses(_)
MapCourses(courses) ==
    IF courses = <<>> THEN <<>>
    ELSE <<NormalizeCourse(Head(courses))>> \o MapCourses(Tail(courses))

CoursesParams == <<<<"enrollment_state", "active">>, <<"include[]", "enrollment_state">>>>

-----------------------------------------------------------------------------
(* CanvasClient.listAssignments *)

Submission(state, submittedAt, missing, late) ==
    [k |-> "obj", workflow_state |-> Str(state), submitted_at |-> submittedAt,
     missing |-> missing, late |-> late, attempt |-> Num(1)]

\* the raw assignment object the upstream holds under id i
RawAssignment(i) ==
    CASE i % 8 = 1 ->
           \* due in the past, no submission object
           [id |-> i, name |-> "assignment", description |-> "text",
            due_at |-> Date(Now - 5), unlock_at |-> Undef, lock_at |-> Undef,
            points_possible |-> Undef, submission_types |-> Undef, submission |-> Undef]
      [] i % 8 = 2 ->
           \* due tomorrow, submitted, not yet unlocked
           [id |-> i, name |-> "assignment", description |-> "text",
            due_at |-> Date(Now + DayMs), unlock_at |-> Date(Now + 10), lock_at |-> Null,
            points_possible |-> Num(10), submission_types |-> Arr(<<"online_upload">>),
            submission |-> Submission("submitted", Date(Now - 1), Undef, Undef)]
      [] i % 8 = 3 ->
           \* no due date, flagged missing
           [id |-> i, name |-> "assignment", description |-> "text",
            due_at |-> Null, unlock_at |-> Date(Now - 10), lock_at |-> Null,
            points_possible |-> Num(0), submission_types |-> Undef,
            submission |-> Submission("unsubmitted", Null, Bool(TRUE), Bool(FALSE))]
      [] i % 8 = 4 ->
           \* due in fifteen days, graded without a submission time
           [id |-> i, name |-> "assignment", description |-> "text",
            due_at |-> Date(Now + 15 * DayMs), unlock_at |-> Null, lock_at |-> Null,
            points_possible |-> Num(5), submission_types |-> Arr(<<"none">>),
            submission |-> Submission("graded", Undef, Bool(FALSE), Bool(TRUE))]
      [] i % 8 = 5 ->
           \* due one millisecond after one day from now, no submission object
           [id |-> i, name |-> "assignment", description |-> "text",
            due_at |-> Date(Now + DayMs + 1), unlock_at |-> Null, lock_at |-> Null,
            points_possible |-> Num(1), submission_types |-> Undef, submission |-> Undef]
      [] i % 8 = 6 ->
           \* due right now, not submitted
           [id |-> i, name |-> "assignment", description |-> "text",
            due_at |-> Date(Now), unlock_at |-> Null, lock_at |-> Null,
            points_possible |-> Num(2), submission_types |-> Undef,
            submission |-> Submission("unsubmitted", Null, Bool(FALSE), Bool(FALSE))]
      [] i % 8 = 7 ->
           \* due a day ago, submitted
           [id |-> i, name |-> "assignment", description |-> "text",
            due_at |-> Date(Now - DayMs), unlock_at |-> Null, lock_at |-> Null,
            points_possible |-> Num(3), submission_types |-> Undef,
            submission |-> Submission("graded", Date(Now - DayMs - 1), Bool(FALSE), Bool(FALSE))]
      [] OTHER ->
           \* due in exactly fourteen days, flagged missing
           [id |-> i, name |-> "assignment", description |-> "text",
            due_at |-> Date(Now + 14 * DayMs), unlock_at |-> Null, lock_at |-> Null,
            points_possible |-> Num(4), submission_types |-> Undef,
            submission |-> Submission("unsubmitted", Null, Bool(TRUE), Bool(FALSE))]

RECURSIVE RawAssignments(_, _)
\* n raw assignments with the ids from + 1 .. from + n
RawAssignments(from, n) ==
    IF n = 0 THEN <<>> ELSE <<RawAssignment(from + 1)>> \o RawAssignments(from + 1, n - 1)

\* the include_future filter: assignments without unlock_at, or unlocked by now
FutureFilter(a, now) ==
    IF Falsy(a.unlock_at) THEN TRUE ELSE a.unlock_at.t <= now

\* submission?.field
SubmissionField(a, field) ==
    IF a.submission.k = "obj" THEN a.submission[field] ELSE Undef

\* StatusFilter reading missing from the submission's flag only
StatusFilter_FlagOnly(a, statusFilter, now) ==
    LET submittedAt == SubmissionField(a, "submitted_at")
        hasSubmittedAt == submittedAt # Null /\ submittedAt # Undef
        state == SubmissionField(a, "workflow_state")
    IN CASE statusFilter = "missing" -> SubmissionField(a, "missing") = Bool(TRUE)
         [] statusFilter = "unsubmitted" -> a.submission.k # "obj" \/ ~hasSubmittedAt
         [] statusFilter = "submitted" ->
              IF hasSubmittedAt THEN TRUE
              ELSE state = Str("submitted") \/ state = Str("graded")
         [] OTHER -> TRUE

\* the predicate of the status filter
StatusFilter(a, statusFilter, now) ==
    LET submittedAt == SubmissionField(a, "submitted_at")
        hasSubmittedAt == submittedAt # Null /\ submittedAt # Undef
        isDueDatePassed == IF ~Falsy(a.due_at) THEN a.due_at.t < now ELSE FALSE
        state == SubmissionField(a, "workflow_state")
    IN CASE statusFilter = "missing" ->
              IF SubmissionField(a, "missing") = Bool(TRUE) THEN TRUE
              ELSE isDueDatePassed /\ ~hasSubmittedAt
         [] statusFilter = "unsubmitted" -> a.submission.k # "obj" \/ ~hasSubmittedAt
         [] statusFilter = "submitted" ->
              IF hasSubmittedAt THEN TRUE
              ELSE state = Str("submitted") \/ state = Str("graded")
         [] OTHER -> TRUE

\* NormalizeAssignment handing the upstream's submission object through
NormalizeAssignment_RawSubmission(a) ==
    [id |-> a.id, name |-> a.name, due_at |-> a.due_at, unlock_at |-> a.unlock_at,
     lock_at |-> a.lock_at,
     points_possible |-> IF Falsy(a.points_possible) THEN Num(0) ELSE a.points_possible,
     submission_types |-> IF Falsy(a.submission_types) THEN Arr(<<>>) ELSE a.submission_types,
     submission_status |-> IF a.submission.k = "obj" THEN a.submission ELSE Null]

\* the object filtered.map builds for an assignment
NormalizeAssignment(a) ==
    [id |-> a.id, name |-> a.name, due_at |-> a.due_at, unlock_at |-> a.unlock_at,
     lock_at |-> a.lock_at,
     points_possible |-> IF Falsy(a.points_possible) THEN Num(0) ELSE a.points_possible,
     submission_types |-> IF Falsy(a.submission_types) THEN Arr(<<>>) ELSE a.submission_types,
     submission_status |->
        IF a.submission.k = "obj"
        THEN [k |-> "obj", workflow_state |-> a.submission.workflow_state,
              submitted_at |-> a.submission.submitted_at,
              missing |-> OrFalse(a.submission.missing),
              late |-> OrFalse(a.submission.late)]
        ELSE Null]

RECURSIVE MapAssignments(_)
MapAssignments(assignments) ==
    IF assignments = <<>> THEN <<>>
    ELSE <<NormalizeAssignment(Head(assignments))>> \o MapAssignments(Tail(assignments))

\* what listAssignments makes of the fetched assignments: the two filters, then the map
FilterAssignments(assignments, includeFuture, statusFilter, now) ==
    LET future(a) == FutureFilter(a, now)
        status(a) == StatusFilter(a, statusFilter, now)
        filtered1 == IF ~includeFuture THEN SelectSeq(assignments, future) ELSE assignments
        filtered2 == IF statusFilter # "all" THEN SelectSeq(filtered1, status) ELSE filtered1
    IN MapAssignments(filtered2)

AssignmentsParams == <<<<"include[]", "submission">>>>
AssignmentsPath(courseId) == Path("/courses/{id}/assignments", courseId)

-----------------------------------------------------------------------------
(* CanvasClient.getSubmissionStatus *)

\* the raw submission objects the upstream may send
RawSubmissions ==
    { [assignment_id |-> Num(11), workflow_state |-> Str("graded"), submitted_at |-> Date(5),
       graded_at |-> Date(6), score |-> Num(0), late |-> Bool(TRUE), missing |-> Undef,
       excused |-> Undef, assignment |-> [k |-> "obj", name |-> Str("homework")]],
      [assignment_id |-> Num(11), workflow_state |-> Str("unsubmitted"), submitted_at |-> Null,
       graded_at |-> Undef, score |-> Null, late |-> Undef, missing |-> Bool(TRUE),
       excused |-> Bool(FALSE), assignment |-> Undef] }

SubmissionBody(submission) == [k |-> "object", value |-> submission]

\* an empty JSON array: every property read of it is undefined
EmptyArraySubmission ==
    [assignment_id |-> Undef, workflow_state |-> Undef, submitted_at |-> Undef,
     graded_at |-> Undef, score |-> Undef, late |-> Undef, missing |-> Undef,
     excused |-> Undef, assignment |-> Undef]

SubmissionResponses ==
    {Response(200, SubmissionBody(sub), NoHeader) : sub \in RawSubmissions}
      \cup {Response(st, NullBody, NoHeader) : st \in {404, 500}}
      \cup {Response(200, b, NoHeader) : b \in {BadJson, NullBody, ListBody(<<>>)}}

NormalizeSubmission(submission) ==
    [assignment_id |-> submission.assignment_id,
     name |-> IF submission.assignment.k = "obj" THEN OrNull(submission.assignment.name) ELSE Null,
     workflow_state |-> submission.workflow_state,
     submitted_at |-> OrNull(submission.submitted_at),
     graded_at |-> OrNull(submission.graded_at),
     score |-> IF submission.score # Null /\ submission.score # Undef THEN submission.score ELSE Null,
     late |-> OrFalse(submission.late),
     missing |-> OrFalse(submission.missing),
     excused |-> OrFalse(submission.excused)]

\* getSubmissionStatus once fetchWithTimeout has settled with r
SubmissionStep(r) ==
    IF r.k = "throw" THEN Thrown(r.err)
    ELSE IF ~Ok(r) THEN Thrown(Err("canvas_api_error", "Error", StatusText(r.status)))
    ELSE IF r.body.k = "badjson"
         THEN Thrown(Err("invalid_response", "Error", "Invalid Canvas API response"))
    ELSE IF r.body.k = "null"
         THEN Thrown(Err("", "TypeError", "Cannot read properties of null"))
    ELSE IF r.body.k = "list" THEN Returned(NormalizeSubmission(EmptyArraySubmission))
    ELSE Returned(NormalizeSubmission(r.body.value))

SubmissionUrl(courseId, assignmentId) ==
    Url(BaseHost, [ep |-> "/courses/{id}/assignments/{id}/submissions/self",
                   course |-> courseId, assignment |-> assignmentId],
        <<<<"include[]", "assignment">>>>)

-----------------------------------------------------------------------------
(* CanvasClient.getCourseGrades *)

\* the grade fields of an enrollment as the upstream may send them
GradeProfiles ==
    { \* every grade field omitted, no grades object
      [grades |-> Undef, computed_current_score |-> Undef, computed_current_grade |-> Undef,
       computed_final_score |-> Undef, computed_final_grade |-> Undef, enrollment_term_id |-> Undef],
      \* every grade field null
      [grades |-> [k |-> "obj", current_score |-> Null, current_grade |-> Null,
                   final_score |-> Null, final_grade |-> Null],
       computed_current_score |-> Null, computed_current_grade |-> Null,
       computed_final_score |-> Null, computed_final_grade |-> Null, enrollment_term_id |-> Null],
      \* a computed score of 0 and nothing else
      [grades |-> [k |-> "obj", current_score |-> Null, current_grade |-> Null,
                   final_score |-> Null, final_grade |-> Null],
       computed_current_score |-> Num(0), computed_current_grade |-> Null,
       computed_final_score |-> Null, computed_final_grade |-> Null, enrollment_term_id |-> Num(5)],
      \* a grades object with scores of 0 and nothing else
      [grades |-> [k |-> "obj", current_score |-> Num(0), current_grade |-> Null,
                   final_score |-> Num(0), final_grade |-> Null],
       computed_current_score |-> Null, computed_current_grade |-> Null,
       computed_final_score |-> Null, computed_final_grade |-> Null, enrollment_term_id |-> Null],
      \* a grades object with scores and grades
      [grades |-> [k |-> "obj", current_score |-> Num(90), current_grade |-> Str("A"),
                   final_score |-> Num(85), final_grade |-> Str("B")],
       computed_current_score |-> Null, computed_current_grade |-> Null,
       computed_final_score |-> Null, computed_final_grade |-> Null, enrollment_term_id |-> Num(5)] }

\* the course ids, enrollment states and course end dates of the model
CourseIds == {7, 8}
EnrollmentStates == {"active", "completed"}
EndDates == {Null, Date(1), Date(2)}

Enrollment(id, course, state, endAt, g) ==
    [id |-> id, course_id |-> course, enrollment_state |-> state,
     course |-> [start_at |-> Null, end_at |-> endAt], g |-> g]

\* the enrollment lists the upstream may send: up to two enrollments with distinct
\* ids, in either order, each with grade fields of its own
EnrollmentLists ==
    {<<>>}
      \cup {<<Enrollment(i, c, st, e, g)>> :
              i \in {1, 2}, c \in CourseIds, st \in EnrollmentStates, e \in EndDates,
              g \in GradeProfiles}
      \cup UNION { {<<Enrollment(i[1], c1, st1, e1, g1), Enrollment(i[2], c2, st2, e2, g2)>> :
                      i \in {<<1, 2>>, <<2, 1>>}, c1 \in CourseIds, c2 \in CourseIds,
                      st1 \in EnrollmentStates, st2 \in EnrollmentStates,
                      e1 \in EndDates, e2 \in EndDates}
                  : g1 \in GradeProfiles, g2 \in GradeProfiles }

\* the responses the upstream may give to the enrollments request
EnrollmentResponses ==
    {Response(200, ListBody(l), NoHeader) : l \in EnrollmentLists}
      \cup {Response(st, NullBody, NoHeader) : st \in {404, 500}}
      \cup {Response(200, b, NoHeader) : b \in {BadJson, ObjectBody, NullBody}}

Hidden(courseId) ==
    [course_id |-> ToNumber(courseId), available |-> FALSE, reason |-> "hidden_or_unavailable"]

\* the sort comparator: negative when a goes first, positive when b goes first
CompareEnrollments(a, b) ==
    LET aEndAt == a.course.end_at
        bEndAt == b.course.end_at
    IN IF ~Falsy(aEndAt) /\ ~Falsy(bEndAt) THEN bEndAt.t - aEndAt.t
       ELSE IF ~Falsy(aEndAt) /\ Falsy(bEndAt) THEN 1
       ELSE IF Falsy(aEndAt) /\ ~Falsy(bEndAt) THEN -1
       ELSE b.id - a.id

RECURSIVE InsertSorted(_, _)
\* x put into the sorted list behind every element that does not go after it
InsertSorted(x, sorted) ==
    IF sorted = <<>> THEN <<x>>
    ELSE IF CompareEnrollments(x, Head(sorted)) < 0 THEN <<x>> \o sorted
    ELSE <<Head(sorted)>> \o InsertSorted(x, Tail(sorted))

RECURSIVE SortEnrollments(_, _)
\* Array.prototype.sort with the comparator above (a stable sort)
SortEnrollments(todo, sorted) ==
    IF todo = <<>> THEN sorted
    ELSE SortEnrollments(Tail(todo), InsertSorted(Head(todo), sorted))

IsActive(e) == e.enrollment_state = "active"

\* CandidateEnrollments without the preference for active enrollments
CandidateEnrollments_All(courseEnrollments) == courseEnrollments

\* the candidate set: the active enrollments of the course, or all when none is active
CandidateEnrollments(courseEnrollments) ==
    LET activeEnrollments == SelectSeq(courseEnrollments, IsActive)
    IN IF Len(activeEnrollments) > 0 THEN activeEnrollments ELSE courseEnrollments

\* candidateEnrollments[0] after the sort
SelectEnrollment(courseEnrollments) ==
    SortEnrollments(CandidateEnrollments(courseEnrollments), <<>>)[1]

\* HasGradeData deciding by truthiness instead of null-ness
HasGradeData_Truthy(enrollment) ==
    LET grades == enrollment.g.grades
    IN \/ /\ grades.k = "obj"
          /\ \/ Truthy(grades.current_score)
             \/ Truthy(grades.current_grade)
             \/ Truthy(grades.final_score)
             \/ Truthy(grades.final_grade)
       \/ Truthy(enrollment.g.computed_current_score)
       \/ Truthy(enrollment.g.computed_current_grade)

\* hasGradeData: a grades object with a field that is not null, or a computed
\* current field that is not null
HasGradeData(enrollment) ==
    LET grades == enrollment.g.grades
    IN \/ /\ grades.k = "obj"
          /\ \/ grades.current_score # Null
             \/ grades.current_grade # Null
             \/ grades.final_score # Null
             \/ grades.final_grade # Null
       \/ enrollment.g.computed_current_score # Null
       \/ enrollment.g.computed_current_grade # Null

\* grades?.field
GradeField(enrollment, field) ==
    IF enrollment.g.grades.k = "obj" THEN enrollment.g.grades[field] ELSE Undef

\* what getCourseGrades returns for the enrollment it selected
GradeSummary(courseId, enrollment) ==
    IF ~HasGradeData(enrollment)
    THEN [course_id |-> ToNumber(courseId), available |-> FALSE, reason |-> "no_grades_yet",
          enrollment_state |-> enrollment.enrollment_state,
          term_id |-> OrNull(enrollment.g.enrollment_term_id),
          course_start_at |-> OrNull(enrollment.course.start_at),
          course_end_at |-> OrNull(enrollment.course.end_at)]
    ELSE [course_id |-> ToNumber(courseId), available |-> TRUE,
          current_score |-> Coalesce(GradeField(enrollment, "current_score"),
                                     Coalesce(enrollment.g.computed_current_score, Null)),
          current_grade |-> Coalesce(GradeField(enrollment, "current_grade"),
                                     Coalesce(enrollment.g.computed_current_grade, Null)),
          final_score |-> Coalesce(GradeField(enrollment, "final_score"),
                                   Coalesce(enrollment.g.computed_final_score, Null)),
          final_grade |-> Coalesce(GradeField(enrollment, "final_grade"),
                                   Coalesce(enrollment.g.computed_final_grade, Null)),
          enrollment_state |-> enrollment.enrollment_state,
          term_id |-> OrNull(enrollment.g.enrollment_term_id),
          course_start_at |-> OrNull(enrollment.course.start_at),
          course_end_at |-> OrNull(enrollment.course.end_at),
          last_updated |-> Null]

\* the try block once fetchWithTimeout has settled with r: what it returns or throws
GradesTry(courseId, r) ==
    IF r.k = "throw" THEN Thrown(r.err)
    ELSE IF ~Ok(r) THEN Returned(Hidden(courseId))
    ELSE IF r.body.k = "badjson" THEN Thrown(Err("", "SyntaxError", "Unexpected token"))
    ELSE IF r.body.k # "list" THEN Thrown(Err("", "TypeError", "enrollments.filter is not a function"))
    ELSE LET matches(e) == e.course_id = ToNumber(courseId)
             courseEnrollments == SelectSeq(r.body.items, matches)
         IN IF Len(courseEnrollments) = 0 THEN Returned(Hidden(courseId))
            ELSE Returned(GradeSummary(courseId, SelectEnrollment(courseEnrollments)))

\* GradesCatch swallowing the timeout error only
GradesCatch_TimeoutOnly(courseId, tried) ==
    IF tried.k = "throw" /\ tried.err.code = "timeout" THEN Returned(Hidden(courseId)) ELSE tried

\* the catch block: every error becomes the hidden_or_unavailable result
GradesCatch(courseId, tried) ==
    IF tried.k = "throw" THEN Returned(Hidden(courseId)) ELSE tried

EnrollmentsUrl(courseId) ==
    Url(BaseHost, Path("/courses/{id}/enrollments", courseId),
        <<<<"user_id", "self">>, <<"type[]", "StudentEnrollment">>>>)

-----------------------------------------------------------------------------
(* CanvasClient.listUpcoming *)

\* courseIds ? courses.filter(c => courseIds.includes(c.id) || courseIds.includes(String(c.id)))
\*           : courses
TargetCourses(courses, courseIds) ==
    LET listed(c) == \E i \in 1..Len(courseIds.items) :
                        courseIds.items[i] = Num(c.id) \/ courseIds.items[i] = NumStr(c.id)
    IN IF courseIds.k = "arr" THEN SelectSeq(courses, listed) ELSE courses

\* the status listUpcoming derives from submission_status
UpcomingStatus(assignment) ==
    LET st == assignment.submission_status
    IN IF st.k # "obj" THEN "unsubmitted"
       ELSE IF Truthy(st.missing) THEN "missing"
       ELSE IF Truthy(st.submitted_at) THEN "submitted"
       ELSE "unsubmitted"

\* InWindow with the far end of the window left out
InWindow_Exclusive(dueDate, now, futureLimit, includeOverdue) ==
    LET isOverdue == dueDate < now
        isUpcoming == dueDate >= now /\ dueDate < futureLimit
    IN (includeOverdue /\ isOverdue) \/ isUpcoming

\* whether the date window keeps an assignment that has a due date
InWindow(dueDate, now, futureLimit, includeOverdue) ==
    LET isOverdue == dueDate < now
        isUpcoming == dueDate >= now /\ dueDate <= futureLimit
    IN (includeOverdue /\ isOverdue) \/ isUpcoming

UpcomingItem(course, assignment) ==
    [course_id |-> course.id, course_name |-> course.name, assignment_id |-> assignment.id,
     name |-> assignment.name, due_at |-> assignment.due_at,
     status |-> UpcomingStatus(assignment), points_possible |-> assignment.points_possible]

RECURSIVE CollectUpcoming(_, _, _, _, _)
\* the items one course adds to allAssignments
CollectUpcoming(course, assignments, now, days, includeOverdue) ==
    IF assignments = <<>> THEN <<>>
    ELSE LET assignment == Head(assignments)
             rest == CollectUpcoming(course, Tail(assignments), now, days, includeOverdue)
         IN IF Falsy(assignment.due_at) THEN rest
            ELSE IF InWindow(assignment.due_at.t, now, now + days * DayMs, includeOverdue)
                 THEN <<UpcomingItem(course, assignment)>> \o rest
            ELSE rest

RECURSIVE InsertByDue(_, _)
\* x put into the sorted list behind every item that is not due later
InsertByDue(x, sorted) ==
    IF sorted = <<>> THEN <<x>>
    ELSE IF x.due_at.t - Head(sorted).due_at.t < 0 THEN <<x>> \o sorted
    ELSE <<Head(sorted)>> \o InsertByDue(x, Tail(sorted))

\* SortUpcoming leaving the items in the order they were collected
SortUpcoming_Unsorted(todo, sorted) == sorted \o todo

RECURSIVE SortUpcoming(_, _)
\* allAssignments.sort by due_at ascending (a stable sort)
SortUpcoming(todo, sorted) ==
    IF todo = <<>> THEN sorted
    ELSE SortUpcoming(Tail(todo), InsertByDue(Head(todo), sorted))

-----------------------------------------------------------------------------
(* handleToolCall *)

\* makeError without the code property
makeError_NoCode(code, message) == Err("", "Error", message)

\* makeError: an Error with the message and a code property
makeError(code, message) == Err(code, "Error", message)

\* the content handleToolCall returns: one text item holding JSON.stringify(value)
Content(value) == [content |-> <<[type |-> "text", text |-> [k |-> "json", value |-> value]]>>]

ToolCatalog ==
    {"list_courses", "list_assignments", "get_submission_status", "get_course_grades",
     "list_upcoming"}

NoArgs ==
    [course_id |-> Undef, assignment_id |-> Undef, include_future |-> Undef,
     status_filter |-> Undef, days |-> Undef, include_overdue |-> Undef, course_ids |-> Undef]

ToolCall(transport, name, args, id) ==
    [transport |-> transport, name |-> name, args |-> args, id |-> id]

\* the transports a tools/call may arrive on, with the JSON-RPC ids of the model
Transports == {"http", "sse", "stdio"}
RpcIds == {Undef, Num(1)}
\* the values a tools/call may give for course_id and assignment_id
CourseIdArgs == {Undef, Num(0), Num(7), NumStr(7)}
AssignmentIdArgs == {Undef, Num(11)}

\* the arguments of the model, by tool
ToolArgs(name) ==
    CASE name = "list_assignments" ->
           {[NoArgs EXCEPT !.course_id = c, !.include_future = f, !.status_filter = sf] :
              c \in CourseIdArgs, f \in {Undef, Bool(FALSE)},
              sf \in {Undef, Str("all"), Str("missing"), Str("unsubmitted"), Str("submitted")}}
      [] name = "get_submission_status" ->
           {[NoArgs EXCEPT !.course_id = c, !.assignment_id = a] :
              c \in {Undef, Num(7)}, a \in AssignmentIdArgs}
      [] name = "get_course_grades" ->
           {[NoArgs EXCEPT !.course_id = c] : c \in CourseIdArgs}
      [] name = "list_upcoming" ->
           {NoArgs,
            [NoArgs EXCEPT !.days = Num(1), !.include_overdue = Bool(FALSE)],
            [NoArgs EXCEPT !.course_ids = Arr(<<NumStr(1), Num(3)>>)]}
      [] OTHER -> {NoArgs}

\* the tools/call requests of the model
Calls ==
    UNION { {ToolCall(t, n, a, i) : a \in ToolArgs(n), t \in Transports, i \in RpcIds}
            : n \in ToolCatalog \cup {"no_such_tool", Absent} }

NoCall == ToolCall("none", "", NoArgs, Undef)

\* a tools/call reaches its dispatch boundary
Start ==
    /\ pc = "idle"
    /\ \E c \in Calls : call' = c
    /\ pc' = "dispatch"
    /\ UNCHANGED <<frame, nextUrl, results, inflight, timers, outcome, reply, logs,
                   reqLog, served, lastSettle, courseLog>>
    /\ UNCHANGED gateVars

\* a client operation starts getWithPagination: the first request is issued
BeginPagination(newFrame, path, params, armed) ==
    LET url == InitialUrl(path, params)
    IN /\ frame' = newFrame
       /\ nextUrl' = url
       /\ results' = <<>>
       /\ FetchWithTimeout(url, CanvasHeaders, armed)
       /\ pc' = "await"

\* handleToolCall, or the client operation, throws before any request
ThrowEarly(err) ==
    /\ outcome' = Thrown(err)
    /\ pc' = "settled"
    /\ UNCHANGED <<frame, nextUrl, results, inflight, timers, reqLog>>

\* handleToolCall up to its first await, or to its throw
HandleToolCall ==
    /\ pc = "dispatch"
    /\ LET args == call.args
       IN CASE call.name = "list_courses" ->
                 /\ BeginPagination([op |-> "listCourses"], CoursesPath, CoursesParams, timers)
                 /\ reqLog' = Append(reqLog, inflight')
                 /\ UNCHANGED outcome
            [] call.name = "list_assignments" ->
                 IF ~Truthy(args.course_id)
                 THEN ThrowEarly(makeError("invalid_arguments", "course_id is required"))
                 ELSE /\ BeginPagination([op |-> "listAssignments"],
                                         AssignmentsPath(args.course_id), AssignmentsParams, timers)
                      /\ reqLog' = Append(reqLog, inflight')
                      /\ UNCHANGED outcome
            [] call.name = "get_submission_status" ->
                 IF ~Truthy(args.course_id)
                 THEN ThrowEarly(makeError("invalid_arguments", "course_id is required"))
                 ELSE IF ~Truthy(args.assignment_id)
                 THEN ThrowEarly(makeError("invalid_arguments", "assignment_id is required"))
                 ELSE /\ frame' = [op |-> "getSubmissionStatus"]
                      /\ FetchWithTimeout(SubmissionUrl(args.course_id, args.assignment_id),
                                          CanvasHeaders, timers)
                      /\ reqLog' = Append(reqLog, inflight')
                      /\ pc' = "await"
                      /\ UNCHANGED <<outcome, nextUrl, results>>
            [] call.name = "get_course_grades" ->
                 IF ~Truthy(args.course_id)
                 THEN ThrowEarly(makeError("invalid_arguments", "course_id is required"))
                 ELSE /\ frame' = [op |-> "getCourseGrades"]
                      /\ FetchWithTimeout(EnrollmentsUrl(args.course_id), CanvasHeaders, timers)
                      /\ reqLog' = Append(reqLog, inflight')
                      /\ pc' = "await"
                      /\ UNCHANGED <<outcome, nextUrl, results>>
            [] call.name = "list_upcoming" ->
                 /\ BeginPagination([op |-> "listUpcoming", phase |-> "courses"],
                                    CoursesPath, CoursesParams, timers)
                 /\ reqLog' = Append(reqLog, inflight')
                 /\ UNCHANGED outcome
            [] OTHER ->
                 ThrowEarly(makeError("invalid_tool",
                                      "Unknown tool: " \o (IF call.name = Absent THEN "undefined"
                                                           ELSE call.name)))
    /\ UNCHANGED <<call, reply, logs, served, lastSettle, courseLog>>
    /\ UNCHANGED gateVars

\* the page record the history keeps of a response
Served(r) == [items |-> r.body.items, adv |-> AdvertisesNext(r.link)]

\* the histories once the fetch has settled with r
Record(r) ==
    /\ served' = IF r.k = "response" /\ Ok(r) /\ r.body.k = "list"
                 THEN Append(served, Served(r)) ELSE served
    /\ lastSettle' = IF r.k = "response"
                     THEN [k |-> "response", status |-> r.status, body |-> r.body.k]
                     ELSE r
    /\ UNCHANGED courseLog

\* the while loop of getWithPagination goes on with the next URL
NextPage(step) ==
    /\ results' = step.results
    /\ nextUrl' = step.nextUrl
    /\ FetchWithTimeout(step.nextUrl, CanvasHeaders, ClearTimeout(timers))
    /\ pc' = "await"
    /\ UNCHANGED outcome

\* the client operation is over and handleToolCall settles with o
Settled(o) ==
    /\ outcome' = o
    /\ frame' = None
    /\ timers' = ClearTimeout(timers)
    /\ inflight' = None
    /\ pc' = "settled"

\* listCourses resumes when the fetch of its getWithPagination settles
ListCoursesResume ==
    /\ pc = "await"
    /\ frame.op = "listCourses"
    /\ \E r \in FetchSettles(PageResponses(RawCourses(0, MaxCourses), CountItems(served), Len(served))) :
         LET step == PagStep(r, results)
         IN /\ Record(r)
            /\ CASE step.k = "continue" ->
                      /\ NextPage(step)
                      /\ reqLog' = Append(reqLog, inflight')
                      /\ UNCHANGED frame
                 [] step.k = "return" ->
                      /\ Settled(Returned(Content(MapCourses(step.value))))
                      /\ results' = step.value
                      /\ nextUrl' = Undef
                      /\ UNCHANGED reqLog
                 [] OTHER ->
                      /\ Settled(step)
                      /\ UNCHANGED <<results, nextUrl, reqLog>>
    /\ UNCHANGED <<call, reply, logs>>
    /\ UNCHANGED gateVars

\* handleToolCall's reading of include_future and status_filter
IncludeFuture(args) == IF args.include_future # Undef THEN args.include_future.b ELSE TRUE
StatusFilterArg(args) == IF Falsy(args.status_filter) THEN "all" ELSE args.status_filter.s

\* listAssignments resumes when the fetch of its getWithPagination settles
ListAssignmentsResume ==
    /\ pc = "await"
    /\ frame.op = "listAssignments"
    /\ \E r \in FetchSettles(PageResponses(RawAssignments(0, MaxPages * MaxItems),
                                           CountItems(served), Len(served))) :
         LET step == PagStep(r, results)
         IN /\ Record(r)
            /\ CASE step.k = "continue" ->
                      /\ NextPage(step)
                      /\ reqLog' = Append(reqLog, inflight')
                      /\ UNCHANGED frame
                 [] step.k = "return" ->
                      /\ Settled(Returned(Content(
                            FilterAssignments(step.value, IncludeFuture(call.args),
                                              StatusFilterArg(call.args), Now))))
                      /\ results' = step.value
                      /\ nextUrl' = Undef
                      /\ UNCHANGED reqLog
                 [] OTHER ->
                      /\ Settled(step)
                      /\ UNCHANGED <<results, nextUrl, reqLog>>
    /\ UNCHANGED <<call, reply, logs>>
    /\ UNCHANGED gateVars

\* getSubmissionStatus resumes when its fetch settles
GetSubmissionStatusResume ==
    /\ pc = "await"
    /\ frame.op = "getSubmissionStatus"
    /\ \E r \in FetchSettles(SubmissionResponses) :
         /\ Record(r)
         /\ LET step == SubmissionStep(r)
            IN Settled(IF step.k = "return" THEN Returned(Content(step.value)) ELSE step)
    /\ UNCHANGED <<call, nextUrl, results, reply, logs, reqLog>>
    /\ UNCHANGED gateVars

\* getCourseGrades resumes when its fetch settles
GetCourseGradesResume ==
    /\ pc = "await"
    /\ frame.op = "getCourseGrades"
    /\ \E r \in FetchSettles(EnrollmentResponses) :
         /\ Record(r)
         /\ LET grades == GradesCatch(call.args.course_id, GradesTry(call.args.course_id, r))
            IN Settled(IF grades.k = "return" THEN Returned(Content(grades.value)) ELSE grades)
    /\ UNCHANGED <<call, nextUrl, results, reply, logs, reqLog>>
    /\ UNCHANGED gateVars

\* handleToolCall's reading of days and include_overdue
Days(args) == IF args.days # Undef THEN args.days.n ELSE 14
IncludeOverdue(args) == IF args.include_overdue # Undef THEN args.include_overdue.b ELSE TRUE

\* the assignments the upstream holds for a course: each course has its own
CourseAssignments(courseId) ==
    RawAssignments((courseId - 1) * MaxPages * MaxItems, MaxPages * MaxItems)

\* FetchCourse starting on the course after targets[idx] while one is left
FetchCourse_Ahead(targets, idx, all) ==
    LET ahead == IF idx < Len(targets) THEN idx + 1 ELSE idx
    IN BeginPagination([op |-> "listUpcoming", phase |-> "assignments", targets |-> targets,
                        idx |-> ahead, all |-> all, page |-> 0],
                       AssignmentsPath(Num(targets[ahead].id)), AssignmentsParams,
                       ClearTimeout(timers))

\* the per-course loop of listUpcoming starts the assignments fetch of targets[idx]
FetchCourse(targets, idx, all) ==
    BeginPagination([op |-> "listUpcoming", phase |-> "assignments", targets |-> targets,
                     idx |-> idx, all |-> all, page |-> 0],
                    AssignmentsPath(Num(targets[idx].id)), AssignmentsParams,
                    ClearTimeout(timers))

\* listUpcoming resumes when the fetch of its listCourses settles
UpcomingCoursesResume ==
    /\ pc = "await"
    /\ frame.op = "listUpcoming" /\ frame.phase = "courses"
    /\ \E r \in FetchSettles(PageResponses(RawCourses(0, MaxCourses), CountItems(served), Len(served))) :
         LET step == PagStep(r, results)
         IN /\ Record(r)
            /\ CASE step.k = "continue" ->
                      /\ NextPage(step)
                      /\ reqLog' = Append(reqLog, inflight')
                      /\ UNCHANGED frame
                 [] step.k = "return" ->
                      LET targets == TargetCourses(MapCourses(step.value), call.args.course_ids)
                      IN IF targets = <<>>
                         THEN /\ Settled(Returned(Content(<<>>)))
                              /\ results' = step.value
                              /\ nextUrl' = Undef
                              /\ UNCHANGED reqLog
                         ELSE /\ FetchCourse(targets, 1, <<>>)
                              /\ UNCHANGED <<outcome, reqLog>>
                 [] OTHER ->
                      /\ Settled(step)
                      /\ UNCHANGED <<results, nextUrl, reqLog>>
    /\ UNCHANGED <<call, reply, logs>>
    /\ UNCHANGED gateVars

\* CourseListing keeping the pages received before the failure
CourseListing_KeepPartial(step, partial) ==
    FilterAssignments(IF step.k = "return" THEN step.value ELSE partial, TRUE, "all", Now)

\* the try block around listAssignments(course.id, true, 'all'): its list, or
\* nothing when it threw (the catch goes on with the next course)
CourseListing(step, partial) ==
    IF step.k = "return" THEN FilterAssignments(step.value, TRUE, "all", Now) ELSE <<>>

\* listUpcoming resumes when a fetch of the listAssignments of targets[idx] settles;
\* the histories of the course listing are left alone, and courseLog records how
\* the listing of the course ended and the raw items received for it
UpcomingAssignmentsResume ==
    /\ pc = "await"
    /\ frame.op = "listUpcoming" /\ frame.phase = "assignments"
    /\ \E r \in FetchSettles(PageResponses(CourseAssignments(frame.targets[frame.idx].id),
                                           Len(results), frame.page)) :
         LET step == PagStep(r, results)
         IN IF step.k = "continue"
            THEN /\ NextPage(step)
                 /\ frame' = [frame EXCEPT !.page = @ + 1]
                 /\ UNCHANGED courseLog
            ELSE LET course == frame.targets[frame.idx]
                     assignments == CourseListing(step, results)
                     all == frame.all \o CollectUpcoming(course, assignments, Now,
                                                         Days(call.args), IncludeOverdue(call.args))
                 IN /\ courseLog' = Append(courseLog,
                                           [course |-> course.id, ok |-> step.k = "return",
                                            items |-> IF step.k = "return" THEN step.value
                                                      ELSE results])
                    /\ IF frame.idx < Len(frame.targets)
                       THEN /\ FetchCourse(frame.targets, frame.idx + 1, all)
                            /\ UNCHANGED outcome
                       ELSE /\ Settled(Returned(Content(SortUpcoming(all, <<>>))))
                            /\ results' = <<>>
                            /\ nextUrl' = Undef
    /\ UNCHANGED <<call, reply, logs, reqLog, served, lastSettle>>
    /\ UNCHANGED gateVars

-----------------------------------------------------------------------------
(* Strings: the String.prototype methods and regular expressions of the gate *)

\* s.slice(from - 1, to): the characters from..to of s, those that exist
Slice(s, from, to) ==
    LET first == IF from < 1 THEN 1 ELSE from
        last == IF to > Len(s) THEN Len(s) ELSE to
    IN IF first > last THEN "" ELSE SubSeq(s, first, last)

Char(s, i) == Slice(s, i, i)

\* s.startsWith(p), s.endsWith(p)
StartsWith(s, p) == Len(s) >= Len(p) /\ Slice(s, 1, Len(p)) = p
EndsWith(s, p) == Len(s) >= Len(p) /\ Slice(s, Len(s) - Len(p) + 1, Len(s)) = p

\* the position of the first character c of s at or after position from, 0 when none
IndexFrom(s, c, from) ==
    LET hits == {i \in from..Len(s) : Char(s, i) = c}
    IN IF hits = {} THEN 0 ELSE CHOOSE i \in hits : \A j \in hits : i <= j

\* s.includes(c)
Includes(s, c) == IndexFrom(s, c, 1) > 0

\* s.split(c)[0]
SplitFirst(s, c) ==
    IF Includes(s, c) THEN Slice(s, 1, IndexFrom(s, c, 1) - 1) ELSE s

RECURSIVE Split(_, _)
\* s.split(c)
Split(s, c) ==
    IF Includes(s, c)
    THEN <<SplitFirst(s, c)>> \o Split(Slice(s, IndexFrom(s, c, 1) + 1, Len(s)), c)
    ELSE <<s>>

\* s.replace(c, ''): the first c is removed
RemoveFirst(s, c) ==
    IF Includes(s, c)
    THEN Slice(s, 1, IndexFrom(s, c, 1) - 1) \o Slice(s, IndexFrom(s, c, 1) + 1, Len(s))
    ELSE s

Whitespace == {" "}

RECURSIVE TrimStart(_)
TrimStart(s) ==
    IF Len(s) > 0 /\ Char(s, 1) \in Whitespace THEN TrimStart(Slice(s, 2, Len(s))) ELSE s

RECURSIVE TrimEnd(_)
TrimEnd(s) ==
    IF Len(s) > 0 /\ Char(s, Len(s)) \in Whitespace THEN TrimEnd(Slice(s, 1, Len(s) - 1)) ELSE s

\* s.trim()
Trim(s) == TrimEnd(TrimStart(s))

UpperCase == "ABCDEFGHIJKLMNOPQRSTUVWXYZ"
LowerCase == "abcdefghijklmnopqrstuvwxyz"

LowerChar(c) ==
    IF Includes(UpperCase, c) THEN Char(LowerCase, IndexFrom(UpperCase, c, 1)) ELSE c

RECURSIVE ToLower(_)
ToLower(s) == IF s = "" THEN "" ELSE LowerChar(Char(s, 1)) \o ToLower(Slice(s, 2, Len(s)))

IsDigit(c) == c \in {"0", "1", "2", "3", "4", "5", "6", "7", "8", "9"}

RECURSIVE DigitRun(_, _)
\* \d+ at position i: the length of the longest run of digits starting there
DigitRun(s, i) ==
    IF i <= Len(s) /\ IsDigit(Char(s, i)) THEN 1 + DigitRun(s, i + 1) ELSE 0

\* after \d+ at position i, the position behind a following "." (0 when no match)
AfterOctetDot(s, i) ==
    IF i = 0 \/ DigitRun(s, i) = 0 THEN 0
    ELSE IF Char(s, i + DigitRun(s, i)) = "." THEN i + DigitRun(s, i) + 1
    ELSE 0

\* host.match(/^(\d+\.\d+\.\d+\.\d+)/): the captured group, "" when there is no match
IpMatch(host) ==
    LET last == AfterOctetDot(host, AfterOctetDot(host, AfterOctetDot(host, 1)))
    IN IF last = 0 \/ DigitRun(host, last) = 0 THEN ""
       ELSE Slice(host, 1, last + DigitRun(host, last) - 1)

\* /^172\.(1[6-9]|2[0-9]|3[0-1])\./.test(ip)
Matches172(ip) ==
    /\ StartsWith(ip, "172.")
    /\ \/ Char(ip, 5) = "1" /\ Char(ip, 6) \in {"6", "7", "8", "9"}
       \/ Char(ip, 5) = "2" /\ IsDigit(Char(ip, 6))
       \/ Char(ip, 5) = "3" /\ Char(ip, 6) \in {"0", "1"}
    /\ Char(ip, 7) = "."

\* /^Bearer\s+(.+)$/i.exec(auth): the captured group, "" when there is no match
BearerMatch(auth) ==
    LET rest == Slice(auth, 7, Len(auth))
    IN IF /\ ToLower(Slice(auth, 1, 6)) = "bearer"
          /\ TrimStart(rest) # rest
          /\ TrimStart(rest) # ""
       THEN TrimStart(rest) ELSE ""

IsAlpha(c) == Includes(LowerCase, LowerChar(c)) /\ c # ""

\* new URL(origin), as far as validateOrigin reads it: protocol and hostname, or
\* the TypeError of an input that is no absolute URL
ParseUrl(input) ==
    LET colon == IndexFrom(input, ":", 1)
        scheme == Slice(input, 1, colon - 1)
        rest == Slice(input, colon + 1, Len(input))
        authority == Slice(rest, 3, Len(rest))
        ends == {i \in 1..Len(authority) : Char(authority, i) \in {":", "/", "?", "#"}}
        hostEnd == IF ends = {} THEN Len(authority)
                   ELSE (CHOOSE i \in ends : \A j \in ends : i <= j) - 1
        schemeOk == /\ colon > 1
                    /\ IsAlpha(Char(scheme, 1))
                    /\ \A i \in 1..Len(scheme) :
                          IsAlpha(Char(scheme, i)) \/ IsDigit(Char(scheme, i))
                            \/ Char(scheme, i) \in {"+", "-", "."}
    IN IF ~schemeOk THEN [ok |-> FALSE, protocol |-> "", hostname |-> ""]
       ELSE IF StartsWith(rest, "//")
       THEN IF hostEnd = 0 THEN [ok |-> FALSE, protocol |-> "", hostname |-> ""]
            ELSE [ok |-> TRUE, protocol |-> ToLower(scheme) \o ":",
                  hostname |-> ToLower(Slice(authority, 1, hostEnd))]
       ELSE [ok |-> TRUE, protocol |-> ToLower(scheme) \o ":", hostname |-> ""]

-----------------------------------------------------------------------------
(* The HTTP server's configuration *)

RECURSIVE TrimAll(_)
TrimAll(parts) == IF parts = <<>> THEN <<>> ELSE <<Trim(Head(parts))>> \o TrimAll(Tail(parts))

\* process.env.ALLOWED_ORIGINS ? split(',').map(trim) : the two localhost entries
ALLOWED_ORIGINS(e) ==
    IF e.ALLOWED_ORIGINS # ""
    THEN TrimAll(Split(e.ALLOWED_ORIGINS, ","))
    ELSE <<"http://localhost:*", "http://127.0.0.1:*">>

\* process.env.MCP_AUTH_TOKEN || ''
MCP_AUTH_TOKEN(e) == e.MCP_AUTH_TOKEN

\* the decimal text of PORT, as '.local:' + PORT spells it
PORT(e) == IF e.PORT # "" THEN e.PORT ELSE "8080"

\* an environment variable that is not set reads ""
DefaultEnv == [PORT |-> "", ALLOWED_ORIGINS |-> "", MCP_AUTH_TOKEN |-> ""]

\* the environments of the model: the defaults, and a deployment with a token,
\* an exact origin and a wildcard-port origin
Environments ==
    {DefaultEnv,
     [PORT |-> "9000", ALLOWED_ORIGINS |-> "https://app.example.com, http://localhost:*",
      MCP_AUTH_TOKEN |-> "s3cret"]}

-----------------------------------------------------------------------------
(* validateOrigin, validateHost *)

RECURSIVE OriginAllowed(_, _, _)
\* the for loop of validateOrigin over the allow-list
OriginAllowed(origin, originUrl, allowList) ==
    IF allowList = <<>> THEN FALSE
    ELSE LET allowed == Head(allowList)
             allowedHost == SplitFirst(allowed, ":")
             originHost == originUrl.protocol \o "//" \o originUrl.hostname
         IN IF Includes(allowed, "*")
            THEN IF originHost = RemoveFirst(allowedHost, "*") THEN TRUE
                 ELSE OriginAllowed(origin, originUrl, Tail(allowList))
            ELSE IF origin = allowed THEN TRUE
            ELSE OriginAllowed(origin, originUrl, Tail(allowList))

validateOrigin(origin, e) ==
    IF Falsy(origin) THEN TRUE
    ELSE IF ~ParseUrl(origin.s).ok THEN FALSE
    ELSE OriginAllowed(origin.s, ParseUrl(origin.s), ALLOWED_ORIGINS(e))

validateHost(host, e) ==
    IF Falsy(host) THEN FALSE
    ELSE LET h == host.s
             ip == IpMatch(h)
         IN IF \/ StartsWith(h, "localhost:") \/ h = "localhost"
               \/ StartsWith(h, "127.0.0.1:") \/ h = "127.0.0.1"
               \/ StartsWith(h, "0.0.0.0:") \/ h = "0.0.0.0"
            THEN TRUE
            ELSE IF /\ ip # ""
                    /\ (StartsWith(ip, "192.168.") \/ StartsWith(ip, "10.") \/ Matches172(ip))
            THEN TRUE
            ELSE IF EndsWith(h, ".local") \/ EndsWith(h, ".local:" \o PORT(e))
            THEN TRUE
            ELSE FALSE

-----------------------------------------------------------------------------
(* The dispatch boundary: the tools/call branch of app.post, the                *)
(* CallToolRequestSchema handler of createMcpServer, and the stdio handler      *)

\* error?.code || (error?.name === 'AbortError' ? 'timeout' : 'internal_error')
ErrorCode(error) ==
    IF error.code # "" THEN error.code
    ELSE IF error.name = "AbortError" THEN "timeout" ELSE "internal_error"

ErrorText(transport, error) ==
    IF transport = "stdio" THEN <<"Error: ", error.msg>>
    ELSE <<"Error [", ErrorCode(error), "]: ", error.msg>>

ErrorResult(transport, error) ==
    [content |-> <<[type |-> "text", text |-> [k |-> "tokens", toks |-> ErrorText(transport, error)]]>>,
     isError |-> TRUE]

\* the record console.log writes; the stdio handler writes none
LogRecord(c, o) ==
    IF o.k = "return"
    THEN [level |-> "info", event |-> "tool_call", tool |-> c.name,
          requestId |-> Coalesce(c.id, Null), success |-> TRUE, code |-> ""]
    ELSE [level |-> "error", event |-> "tool_call", tool |-> c.name,
          requestId |-> Coalesce(c.id, Null), success |-> FALSE, code |-> ErrorCode(o.err)]

\* res.status(status).json(body); res.json(body) answers with status 200
Json(status, body) == [status |-> status, body |-> body]

NoRequest == [host |-> Undef, origin |-> Undef, authorization |-> Undef,
              sessionId |-> Undef, body |-> Undef]

\* handleToolCall has settled: log, and answer with a JSON-RPC result
Settle ==
    /\ pc = "settled"
    /\ logs' = IF call.transport = "stdio" THEN logs ELSE Append(logs, LogRecord(call, outcome))
    /\ reply' = [k |-> "result", jsonrpc |-> "2.0", id |-> call.id,
                 result |-> IF outcome.k = "return" THEN outcome.value
                            ELSE ErrorResult(call.transport, outcome.err)]
    /\ res' = IF call.transport = "http" THEN Json(200, reply') ELSE res
    /\ pc' = "replied"
    /\ UNCHANGED <<call, frame, nextUrl, results, inflight, timers, outcome, reqLog, served, lastSettle, courseLog>>
    /\ UNCHANGED <<env, req, checks, opened>>

\* the request is over; the server waits for the next one
Finish ==
    /\ pc = "replied"
    /\ pc' = "idle"
    /\ call' = NoCall
    /\ frame' = None
    /\ nextUrl' = Undef
    /\ results' = <<>>
    /\ outcome' = None
    /\ reply' = None
    /\ logs' = <<>>
    /\ reqLog' = <<>>
    /\ served' = <<>>
    /\ lastSettle' = None
    /\ courseLog' = <<>>
    /\ req' = NoRequest
    /\ res' = None
    /\ checks' = <<>>
    /\ UNCHANGED <<inflight, timers, env, opened>>

-----------------------------------------------------------------------------
(* The HTTP endpoint: securityMiddleware, mcpAuthMiddleware, app.post(BASE_PATH) *)

HttpRequest(host, origin, authorization, sessionId, body) ==
    [host |-> host, origin |-> origin, authorization |-> authorization,
     sessionId |-> sessionId, body |-> body]

\* a JSON-RPC envelope as express.json() parsed it
Envelope(jsonrpc, method, id, params) ==
    [k |-> "obj", jsonrpc |-> jsonrpc, method |-> method, id |-> id, params |-> params]

Params(name, arguments) == [k |-> "obj", name |-> name, arguments |-> arguments]

\* the Host, Origin and Authorization headers of the model
HostHeaders ==
    {Undef} \cup
    {Str(h) : h \in {"localhost", "localhost:8080", "127.0.0.1:9000", "0.0.0.0",
                     "192.168.1.5:8080", "10.0.0.1", "172.16.0.1", "172.31.9.9:80",
                     "172.32.0.1", "8.8.8.8", "evil.com", "localhost.evil.com",
                     "10.0.0.1.evil.com", "pi.local", "pi.local:9000", "pi.local:8080"}}

OriginHeaders ==
    {Undef} \cup
    {Str(o) : o \in {"http://localhost:3000", "http://127.0.0.1:8080",
                     "https://app.example.com", "http://evil.com", "not a url"}}

AuthHeaders ==
    {Undef} \cup
    {Str(a) : a \in {"Bearer s3cret", "bearer   s3cret ", "Basic s3cret", "Bearer",
                     "Bearer s3cre", "Bearer s3creT", "Bearer s3cret2"}}

\* req.query.sessionId: absent, a string, or an array when given twice
SessionIds == {Undef, Str(""), Str("s1"), Arr(<<Str("s1"), Str("s2")>>)}

\* the params of the tools/call requests of the model
CallParams ==
    {Undef,
     Params("list_courses", Undef),
     Params("list_assignments", Undef),
     Params("list_assignments", [NoArgs EXCEPT !.course_id = Num(7)]),
     Params("get_submission_status",
            [NoArgs EXCEPT !.course_id = Num(7), !.assignment_id = Num(11)]),
     Params("get_course_grades", [NoArgs EXCEPT !.course_id = Num(7)]),
     Params("list_upcoming", NoArgs),
     Params("no_such_tool", Undef)}

\* the bodies of the model: no object, and envelopes right and wrong
Bodies ==
    {Undef, Str("text"), Arr(<<>>)} \cup
    {Envelope(j, m, i, Undef) :
        j \in {Undef, Str("1.0"), Str("2.0")},
        m \in {Undef, Num(5), Str("tools/list"), Str("initialize")},
        i \in RpcIds} \cup
    {Envelope(j, Str("tools/call"), i, p) :
        j \in {Str("1.0"), Str("2.0")}, i \in RpcIds, p \in CallParams}

\* the requests of the model: every header combination with a few bodies, and
\* every body behind headers that pass
Requests ==
    {HttpRequest(h, o, a, sid, b) :
        h \in HostHeaders, o \in OriginHeaders, a \in AuthHeaders,
        sid \in {Undef, Str("s1")},
        b \in {Envelope(Str("2.0"), Str("tools/list"), Num(1), Undef),
               Envelope(Str("2.0"), Str("tools/call"), Num(1), Params("no_such_tool", Undef))}}
    \cup
    {HttpRequest(Str("localhost:8080"), Undef, Str("Bearer s3cret"), sid, b) :
        sid \in SessionIds, b \in Bodies}

\* a POST to BASE_PATH arrives
Arrive ==
    /\ pc = "idle"
    /\ \E r \in Requests : req' = r
    /\ pc' = "security"
    /\ UNCHANGED <<env, res, checks, opened>>
    /\ UNCHANGED <<call, frame, nextUrl, results, inflight, timers, outcome, reply, logs,
                   reqLog, served, lastSettle, courseLog>>

\* a middleware or the handler ends the request with a response
Respond(response) ==
    /\ res' = response
    /\ pc' = "replied"

\* console.warn of a rejected request
WarnRecord(event) ==
    [level |-> "warn", event |-> event, tool |-> "", requestId |-> Undef,
     success |-> FALSE, code |-> ""]

\* which check of securityMiddleware ends the request, "next" when none does
SecurityVerdict_OriginFirst(r, e) ==
    IF Truthy(r.origin) /\ ~validateOrigin(r.origin, e) THEN "origin"
    ELSE IF ~validateHost(r.host, e) THEN "host"
    ELSE "next"

SecurityVerdict(r, e) ==
    IF ~validateHost(r.host, e) THEN "host"
    ELSE IF Truthy(r.origin) /\ ~validateOrigin(r.origin, e) THEN "origin"
    ELSE "next"

\* the checks a verdict of securityMiddleware went through
SecurityChecks(r, verdict) ==
    IF verdict = "host" THEN <<"host">>
    ELSE IF Truthy(r.origin) THEN <<"host", "origin">>
    ELSE <<"host">>

securityMiddleware(verdict) ==
    CASE verdict = "host" ->
           /\ Respond(Json(403, [error |-> "Forbidden: Invalid Host header"]))
           /\ logs' = Append(logs, WarnRecord("invalid_host"))
      [] verdict = "origin" ->
           /\ Respond(Json(403, [error |-> "Forbidden: Invalid Origin"]))
           /\ logs' = Append(logs, WarnRecord("invalid_origin"))
      [] OTHER ->
           /\ pc' = "auth"
           /\ UNCHANGED <<res, logs>>

SecurityMiddleware ==
    /\ pc = "security"
    /\ securityMiddleware(SecurityVerdict(req, env))
    /\ checks' = checks \o SecurityChecks(req, SecurityVerdict(req, env))
    /\ UNCHANGED <<env, req, opened>>
    /\ UNCHANGED <<call, frame, nextUrl, results, inflight, timers, outcome, reply,
                   reqLog, served, lastSettle, courseLog>>

\* how the token of the Authorization header compares with the expected one
TokenVerdict_NoLengthTest(provided, expected) ==
    IF provided # expected THEN "content" ELSE "next"

TokenVerdict(provided, expected) ==
    IF Len(provided) # Len(expected) THEN "length"
    ELSE IF provided # expected THEN "content"
    ELSE "next"

\* which test of mcpAuthMiddleware ends the request; "open" when no token is
\* configured, "next" when the token is the expected one
AuthVerdict(r, e) ==
    LET raw == r.authorization
    IN IF MCP_AUTH_TOKEN(e) = "" THEN "open"
       ELSE IF Falsy(raw) THEN "missing"
       ELSE IF BearerMatch(Trim(raw.s)) = "" THEN "scheme"
       ELSE TokenVerdict(Trim(BearerMatch(Trim(raw.s))), MCP_AUTH_TOKEN(e))

\* the steps a verdict of mcpAuthMiddleware went through; "compare" is timingSafeEqual
AuthChecks(verdict) ==
    CASE verdict = "open" -> <<>>
      [] verdict \in {"missing", "scheme"} -> <<"bearer">>
      [] verdict = "length" -> <<"bearer", "length">>
      [] OTHER -> <<"bearer", "length", "compare">>

McpAuthMiddleware ==
    /\ pc = "auth"
    /\ IF AuthVerdict(req, env) \in {"open", "next"}
       THEN /\ pc' = "post"
            /\ UNCHANGED res
       ELSE Respond(Json(401, [error |-> "unauthorized"]))
    /\ checks' = checks \o AuthChecks(AuthVerdict(req, env))
    /\ UNCHANGED <<env, req, opened>>
    /\ UNCHANGED <<call, frame, nextUrl, results, inflight, timers, outcome, reply, logs,
                   reqLog, served, lastSettle, courseLog>>

\* the JSON-RPC error message of the POST handler
RpcError(id, code, message) ==
    [k |-> "error", jsonrpc |-> "2.0", id |-> id, error |-> [code |-> code, message |-> message]]

\* SessionId reading no sessionId from any query
SessionId_Absent(r) == Undef

\* SessionId accepting a sessionId only once a session was opened
SessionId_KnownOnly(r) == IF r.sessionId.k = "str" /\ opened THEN r.sessionId ELSE Undef

\* the sessionId the handler reads from the query
SessionId(r) == IF r.sessionId.k = "str" THEN r.sessionId ELSE Undef

\* what the handler makes of the body of a POST with a sessionId
EnvelopeVerdict_NoVersionTest(body) ==
    IF Falsy(body) \/ body.k \notin {"obj", "arr"} THEN "invalid_body"
    ELSE IF body.k = "arr" THEN "invalid_envelope"
    ELSE IF body.method.k # "str" THEN "invalid_envelope"
    ELSE IF body.method = Str("tools/list") THEN "tools/list"
    ELSE IF body.method = Str("tools/call") THEN "tools/call"
    ELSE "method_not_found"

EnvelopeVerdict(body) ==
    IF Falsy(body) \/ body.k \notin {"obj", "arr"} THEN "invalid_body"
    ELSE IF body.k = "arr" THEN "invalid_envelope"
    ELSE IF body.jsonrpc # Str("2.0") \/ body.method.k # "str" THEN "invalid_envelope"
    ELSE IF body.method = Str("tools/list") THEN "tools/list"
    ELSE IF body.method = Str("tools/call") THEN "tools/call"
    ELSE "method_not_found"

\* the tools/call the handler hands to handleToolCall
HttpCall(body) ==
    ToolCall("http",
             IF body.params.k = "obj" THEN body.params.name ELSE Absent,
             IF body.params.k = "obj" /\ body.params.arguments # Undef
             THEN body.params.arguments ELSE NoArgs,
             body.id)

ListToolsRecord(id) ==
    [level |-> "info", event |-> "list_tools", tool |-> "", requestId |-> id,
     success |-> TRUE, code |-> ""]

\* the handler of app.post(BASE_PATH), up to its response or to handleToolCall
PostHandler ==
    /\ pc = "post"
    /\ LET verdict == EnvelopeVerdict(req.body)
           answer(message) == /\ Respond(Json(200, message))
                              /\ reply' = message
       IN IF Falsy(SessionId(req))
          THEN \* no sessionId: a new session over an SSE transport
               /\ Respond([status |-> 200, body |-> [k |-> "sse", endpoint |-> "BASE_PATH"]])
               /\ checks' = checks \o <<"post", "negotiate">>
               /\ opened' = TRUE
               /\ logs' = Append(logs, [level |-> "info", event |-> "connection", tool |-> "",
                                        requestId |-> Undef, success |-> TRUE, code |-> ""])
               /\ UNCHANGED <<call, reply>>
          ELSE /\ UNCHANGED opened
               /\ CASE verdict = "invalid_body" ->
                      /\ Respond(Json(400, RpcError(Null, -32600, "Invalid request body")))
                      /\ reply' = RpcError(Null, -32600, "Invalid request body")
                      /\ checks' = checks \o <<"post">>
                      /\ UNCHANGED <<call, logs>>
                 [] verdict = "invalid_envelope" ->
                      /\ Respond(Json(400, RpcError(Null, -32600, "Invalid JSON-RPC 2.0 request")))
                      /\ reply' = RpcError(Null, -32600, "Invalid JSON-RPC 2.0 request")
                      /\ checks' = checks \o <<"post">>
                      /\ UNCHANGED <<call, logs>>
                 [] verdict = "tools/list" ->
                      /\ answer([k |-> "result", jsonrpc |-> "2.0", id |-> req.body.id,
                                 result |-> [tools |-> ToolCatalog]])
                      /\ checks' = checks \o <<"post", "tools/list">>
                      /\ logs' = Append(logs, ListToolsRecord(req.body.id))
                      /\ UNCHANGED call
                 [] verdict = "tools/call" ->
                      /\ call' = HttpCall(req.body)
                      /\ pc' = "dispatch"
                      /\ checks' = checks \o <<"post", "tools/call">>
                      /\ UNCHANGED <<res, reply, logs>>
                 [] OTHER ->
                      /\ answer(RpcError(req.body.id, -32601, "Method not found"))
                      /\ checks' = checks \o <<"post">>
                      /\ UNCHANGED <<call, logs>>
    /\ UNCHANGED <<env, req>>
    /\ UNCHANGED <<frame, nextUrl, results, inflight, timers, outcome, reqLog, served, lastSettle, courseLog>>

-----------------------------------------------------------------------------
vars == <<call, pc, frame, nextUrl, results, inflight, timers, outcome, reply, logs,
          reqLog, served, lastSettle, courseLog, env, req, res, checks, opened>>

\* the server is up and no request has arrived
Idle ==
    /\ call = NoCall
    /\ pc = "idle"
    /\ frame = None
    /\ nextUrl = Undef
    /\ results = <<>>
    /\ inflight = None
    /\ timers = 0
    /\ outcome = None
    /\ reply = None
    /\ logs = <<>>
    /\ reqLog = <<>>
    /\ served = <<>>
    /\ lastSettle = None
    /\ courseLog = <<>>
    /\ req = NoRequest
    /\ res = None
    /\ checks = <<>>
    /\ opened = FALSE

\* the tool calls, from the dispatch boundary of each of the three transports
Init == Idle /\ env = DefaultEnv

Next ==
    \/ Start
    \/ HandleToolCall
    \/ ListCoursesResume
    \/ ListAssignmentsResume
    \/ GetSubmissionStatusResume
    \/ GetCourseGradesResume
    \/ UpcomingCoursesResume
    \/ UpcomingAssignmentsResume
    \/ Settle
    \/ Finish

Spec == Init /\ [][Next]_vars

\* the HTTP server, from the arrival of a POST at BASE_PATH
InitGate == Idle /\ env \in Environments

NextGate ==
    \/ Arrive
    \/ SecurityMiddleware
    \/ McpAuthMiddleware
    \/ PostHandler
    \/ HandleToolCall
    \/ ListCoursesResume
    \/ ListAssignmentsResume
    \/ GetSubmissionStatusResume
    \/ GetCourseGradesResume
    \/ UpcomingCoursesResume
    \/ UpcomingAssignmentsResume
    \/ Settle
    \/ Finish

SpecGate == InitGate /\ [][NextGate]_vars

-----------------------------------------------------------------------------
(* Properties of the paginated fetch *)

RECURSIVE ConcatPages(_)
ConcatPages(pages) ==
    IF pages = <<>> THEN <<>> ELSE Head(pages).items \o ConcatPages(Tail(pages))

Over == pc \in {"settled", "replied"}

\* the value handleToolCall returned, before JSON.stringify
Payload == outcome.value.content[1].text.value

\* the tools that are one paginated fetch, and what each makes of the fetched items
Paginated == {"list_courses", "list_assignments"}
Listing(items) ==
    IF call.name = "list_courses" THEN MapCourses(items)
    ELSE FilterAssignments(items, IncludeFuture(call.args), StatusFilterArg(call.args), Now)

\* C1: against an upstream that serves N >= 1 successful pages of which all but the
\* last advertise rel="next", the paginated fetch issues exactly N requests and
\* returns the pages' items concatenated in arrival order; it goes on only while
\* every page so far advertised a next page.
PaginationComplete ==
    /\ (pc = "await" /\ call.name \in Paginated) =>
          /\ \A i \in 1..Len(served) : served[i].adv
          /\ Len(reqLog) = Len(served) + 1
          /\ results = ConcatPages(served)
    /\ (Over /\ call.name \in Paginated /\ Len(served) >= 1 /\ ~served[Len(served)].adv) =>
          /\ outcome.k = "return"
          /\ Len(reqLog) = Len(served)
          /\ \A i \in 1..(Len(served) - 1) : served[i].adv
          /\ results = ConcatPages(served)
          /\ Payload = Listing(ConcatPages(served))

\* a fetch of two pages, the first with two items, has returned
PaginationCompleteWitness ==
    /\ pc = "settled" /\ call.name = "list_assignments" /\ outcome.k = "return"
    /\ Len(served) >= 2 /\ Len(served[1].items) >= 2 /\ Len(served[2].items) >= 1
    /\ Len(Payload) >= 3

NonOk(settle) == settle.k = "response" /\ ~(settle.status >= 200 /\ settle.status <= 299)

\* C2: when a page of a paginated fetch answers with a non-2xx status, the
\* operation fails with code canvas_api_error, no further page is requested and
\* the items of the earlier pages are not returned.
UpstreamErrorAborts ==
    (call.name \in Paginated /\ NonOk(lastSettle)) =>
        /\ Over
        /\ outcome.k = "throw" /\ outcome.err.code = "canvas_api_error"
        /\ Len(reqLog) = Len(served) + 1
        /\ pc = "replied" => "isError" \in DOMAIN reply.result

\* the second page failed after a first page with items, and the call was answered
UpstreamErrorAbortsWitness ==
    /\ call.name \in Paginated /\ NonOk(lastSettle) /\ pc = "replied"
    /\ Len(served) = 1 /\ Len(results) > 0

-----------------------------------------------------------------------------
(* Properties of fetchWithTimeout *)

\* the error of a request whose timer fired first
TimeoutError == Err("timeout", "Error", "Canvas request timed out after timeoutMs")

NoTimerLeak ==
    /\ pc = "await" => timers = 1
    /\ pc # "await" => timers = 0

\* a call of two requests, the second failed by a transport error, is over
NoTimerLeakWitness ==
    /\ pc = "replied" /\ Len(reqLog) = 2
    /\ lastSettle = Thrown(NetworkError)
    /\ timers = 0

-----------------------------------------------------------------------------
(* Properties of listAssignments *)

\* list_assignments has returned a list
AssignmentsListed == call.name = "list_assignments" /\ Over /\ outcome.k = "return"

\* the assignment has a submission with a submission time
HasSubmittedAt(a) ==
    /\ a.submission # Undef
    /\ a.submission.submitted_at # Null /\ a.submission.submitted_at # Undef

\* the assignment has a due date in the past
DuePassed(a) == a.due_at # Null /\ a.due_at # Undef /\ a.due_at.t < Now

\* the membership predicate named by a status filter
MeetsStatus(a, filter) ==
    CASE filter = "missing" ->
           \/ (a.submission # Undef /\ a.submission.missing = Bool(TRUE))
           \/ (DuePassed(a) /\ ~HasSubmittedAt(a))
      [] filter = "unsubmitted" -> a.submission = Undef \/ ~HasSubmittedAt(a)
      [] filter = "submitted" ->
           \/ HasSubmittedAt(a)
           \/ (a.submission # Undef
                 /\ a.submission.workflow_state \in {Str("submitted"), Str("graded")})
      [] filter = "all" -> TRUE

\* the ids of the assignments in a list
RECURSIVE Ids(_)
Ids(list) == IF list = <<>> THEN <<>> ELSE <<Head(list).id>> \o Ids(Tail(list))

\* C14: list_assignments returns exactly the fetched assignments that meet the
\* named status predicate at call time (among those the include_future filter
\* lets through); one due in the past without a submission object is kept under
\* missing and unsubmitted and dropped under submitted.
StatusFilterExact ==
    AssignmentsListed =>
        LET fetched == ConcatPages(served)
            filter == StatusFilterArg(call.args)
            kept(a) == /\ IncludeFuture(call.args) \/ FutureFilter(a, Now)
                       /\ MeetsStatus(a, filter)
        IN /\ Ids(Payload) = Ids(SelectSeq(fetched, kept))
           /\ \A i \in 1..Len(fetched) :
                 (DuePassed(fetched[i]) /\ fetched[i].submission = Undef) =>
                    ((\E j \in 1..Len(Payload) : Payload[j].id = fetched[i].id)
                        <=> filter \in {"missing", "unsubmitted", "all"})

\* under the missing filter, of four fetched assignments the overdue one without
\* a submission and the one flagged missing are returned
StatusFilterExactWitness ==
    /\ AssignmentsListed /\ StatusFilterArg(call.args) = "missing"
    /\ IncludeFuture(call.args)
    /\ Len(ConcatPages(served)) = 4
    /\ Ids(Payload) = <<1, 3>>

\* the fields of a value of the model, its kind tag aside
Fields(v) == DOMAIN v \ {"k"}

\* the fetched object a returned item was made of
RawOf(item) ==
    LET fetched == ConcatPages(served)
    IN fetched[CHOOSE i \in 1..Len(fetched) : fetched[i].id = item.id]

\* the documented shape of a returned course
CourseShape(c) ==
    /\ DOMAIN c = {"id", "name", "course_code", "enrollment_state"}
    /\ RawOf(c).enrollment_state = Absent => c.enrollment_state = "active"
    /\ RawOf(c).enrollment_state # Absent => c.enrollment_state = RawOf(c).enrollment_state

\* the documented shape of a returned assignment
AssignmentShape(a) ==
    /\ DOMAIN a = {"id", "name", "due_at", "unlock_at", "lock_at", "points_possible",
                   "submission_types", "submission_status"}
    /\ RawOf(a).points_possible = Undef => a.points_possible = Num(0)
    /\ RawOf(a).submission_types = Undef => a.submission_types = Arr(<<>>)
    /\ RawOf(a).submission = Undef <=> a.submission_status = Null
    /\ a.submission_status # Null =>
          /\ Fields(a.submission_status) = {"workflow_state", "submitted_at", "missing", "late"}
          /\ a.submission_status.workflow_state = RawOf(a).submission.workflow_state
          /\ a.submission_status.submitted_at = RawOf(a).submission.submitted_at
          /\ RawOf(a).submission.missing = Undef => a.submission_status.missing = Bool(FALSE)
          /\ RawOf(a).submission.late = Undef => a.submission_status.late = Bool(FALSE)

\* C18: whatever other fields the upstream objects carry, a returned course has
\* exactly id, name, course_code and enrollment_state ("active" when omitted),
\* and a returned assignment exactly the eight documented fields with their
\* defaults, its submission_status null or exactly four fields.
NormalizedShapes ==
    /\ (call.name = "list_courses" /\ Over /\ outcome.k = "return") =>
          \A j \in 1..Len(Payload) : CourseShape(Payload[j])
    /\ AssignmentsListed =>
          \A j \in 1..Len(Payload) : AssignmentShape(Payload[j])

\* list_assignments returned an assignment the upstream sent without points,
\* submission types and submission, and one whose submission omits missing and late
NormalizedShapesWitness ==
    /\ AssignmentsListed /\ Len(Payload) >= 2
    /\ RawOf(Payload[1]).points_possible = Undef /\ Payload[1].points_possible = Num(0)
    /\ RawOf(Payload[1]).submission = Undef /\ Payload[1].submission_status = Null
    /\ "description" \in DOMAIN RawOf(Payload[1])
    /\ RawOf(Payload[2]).submission.missing = Undef
    /\ "attempt" \in DOMAIN RawOf(Payload[2]).submission
    /\ Payload[2].submission_status.missing = Bool(FALSE)

-----------------------------------------------------------------------------
(* Properties of listUpcoming *)

\* list_upcoming has returned a list
UpcomingListed == call.name = "list_upcoming" /\ Over /\ outcome.k = "return"

\* the assignment ids of the returned items, in order
RECURSIVE AssignmentIds(_)
AssignmentIds(list) ==
    IF list = <<>> THEN <<>> ELSE <<Head(list).assignment_id>> \o AssignmentIds(Tail(list))

\* the returned list has an item for the assignment
Listed(a) == \E j \in 1..Len(Payload) : Payload[j].assignment_id = a.id

HasDue(a) == a.due_at # Null /\ a.due_at # Undef

\* the end of the window: now + days * 24h
WindowEnd == Now + Days(call.args) * DayMs

\* the stated rule: overdue and overdue items wanted, or due within [now, end]
Qualifies(a) ==
    /\ HasDue(a)
    /\ \/ a.due_at.t < Now /\ IncludeOverdue(call.args)
       \/ Now <= a.due_at.t /\ a.due_at.t <= WindowEnd

\* C15: of the assignments fetched for a course, list_upcoming returns exactly
\* those with a due date that are overdue (when overdue items are wanted) or due
\* within [now, now + days * 24h], both ends included.
UpcomingWindow ==
    UpcomingListed =>
        \A k \in 1..Len(courseLog) : courseLog[k].ok =>
            \A i \in 1..Len(courseLog[k].items) :
                LET a == courseLog[k].items[i]
                IN /\ Listed(a) <=> Qualifies(a)
                   /\ (HasDue(a) /\ a.due_at.t = WindowEnd) => Listed(a)
                   /\ (HasDue(a) /\ a.due_at.t = WindowEnd + 1) => ~Listed(a)
                   /\ (HasDue(a) /\ a.due_at.t < Now /\ ~IncludeOverdue(call.args))
                         => ~Listed(a)
                   /\ ~HasDue(a) => ~Listed(a)

\* the assignments of two courses were fetched in full
AllFetched ==
    /\ Len(courseLog) = 2
    /\ \A k \in 1..2 : courseLog[k].ok /\ Len(courseLog[k].items) = MaxPages * MaxItems

\* days = 1 without overdue items: of the eight assignments of two courses only
\* the one due now and the one due in exactly one day are returned; those due a
\* millisecond later, overdue or without a due date are not
UpcomingWindowWitness ==
    /\ UpcomingListed /\ Days(call.args) = 1 /\ ~IncludeOverdue(call.args)
    /\ AllFetched
    /\ AssignmentIds(Payload) = <<6, 2>>

\* the course listing of list_upcoming succeeded, and the courses it targets
CoursesListed == served # <<>> /\ ~served[Len(served)].adv
Targets == TargetCourses(MapCourses(ConcatPages(served)), call.args.course_ids)

\* the assignment is one received for a course whose listing succeeded
FromListedCourse(item) ==
    \E k \in 1..Len(courseLog) :
        /\ courseLog[k].ok /\ courseLog[k].course = item.course_id
        /\ \E i \in 1..Len(courseLog[k].items) :
              courseLog[k].items[i].id = item.assignment_id

\* C16: once the courses are listed, list_upcoming succeeds whatever courses'
\* assignment listings fail; every target course is fetched, failures included,
\* and the result holds exactly the qualifying items of the courses whose
\* listing succeeded, none of a failed course.
FailedCoursesSkipped ==
    (call.name = "list_upcoming" /\ Over /\ CoursesListed) =>
        /\ outcome.k = "return"
        /\ Len(courseLog) = Len(Targets)
        /\ \A k \in 1..Len(courseLog) : courseLog[k].course = Targets[k].id
        /\ \A j \in 1..Len(Payload) : FromListedCourse(Payload[j])
        /\ \A k \in 1..Len(courseLog) : \A i \in 1..Len(courseLog[k].items) :
              LET a == courseLog[k].items[i]
              IN Listed(a) <=> (courseLog[k].ok /\ Qualifies(a))
        /\ Len(Payload) =
              Cardinality({<<k, i>> \in (1..Len(courseLog)) \X (1..(MaxPages * MaxItems + 1)) :
                              /\ courseLog[k].ok /\ i <= Len(courseLog[k].items)
                              /\ Qualifies(courseLog[k].items[i])})

\* the first course failed after a page with a qualifying assignment, the second
\* course was still fetched, and only its items are returned
FailedCoursesSkippedWitness ==
    /\ UpcomingListed /\ Len(courseLog) = 2
    /\ ~courseLog[1].ok
    /\ \E i \in 1..Len(courseLog[1].items) : Qualifies(courseLog[1].items[i])
    /\ courseLog[2].ok
    /\ Payload # <<>>
    /\ \A j \in 1..Len(Payload) : Payload[j].course_id = courseLog[2].course

\* C17: the list list_upcoming returns is ordered by due date ascending across
\* the courses, so every overdue item precedes every item that is not overdue.
UpcomingSorted ==
    UpcomingListed =>
        /\ \A j \in 1..(Len(Payload) - 1) : Payload[j].due_at.t <= Payload[j + 1].due_at.t
        /\ \A i, j \in 1..Len(Payload) :
              (Payload[i].due_at.t < Now /\ Payload[j].due_at.t >= Now) => i < j

\* the items of two courses come back interleaved by due date: an overdue item
\* of the second course ahead of the overdue item of the first
UpcomingSortedWitness ==
    /\ UpcomingListed /\ AllFetched
    /\ Days(call.args) = 14 /\ IncludeOverdue(call.args)
    /\ AssignmentIds(Payload) = <<7, 1, 6, 2, 5, 8>>

-----------------------------------------------------------------------------
(* Properties of getCourseGrades *)

GradesCalled == call.name = "get_course_grades" /\ Over /\ Len(reqLog) = 1

\* the enrollments of the requested course in the list the upstream served
Matching ==
    LET matches(e) == e.course_id = ToNumber(call.args.course_id)
    IN IF served = <<>> THEN <<>> ELSE SelectSeq(served[1].items, matches)

\* the enrollment request failed, or left no enrollment of the course
GradesFailure ==
    \/ lastSettle.k = "throw"
    \/ NonOk(lastSettle)
    \/ lastSettle.body # "list"
    \/ Matching = <<>>

\* C9: getCourseGrades never raises an error: on a timeout, another transport
\* failure, a non-2xx status, an unreadable body or no enrollment of the course it
\* returns the hidden_or_unavailable result for the course id.
GradesNeverThrow ==
    GradesCalled =>
        /\ outcome.k = "return"
        /\ GradesFailure =>
              Payload = [course_id |-> ToNumber(call.args.course_id), available |-> FALSE,
                         reason |-> "hidden_or_unavailable"]

\* the enrollment request timed out and getCourseGrades has settled
GradesNeverThrowWitness ==
    /\ GradesCalled /\ lastSettle.k = "throw" /\ lastSettle.err.code = "timeout"

\* a transport failure other than a timeout
GradesTransportFailureWitness ==
    /\ GradesCalled /\ lastSettle.k = "throw" /\ lastSettle.err.code = ""

\* C10: when an enrollment of the course is active the selected enrollment is an
\* active one; only when none is active is it selected among all of them.
ActivePreferred ==
    (GradesCalled /\ Matching # <<>>) =>
        /\ (\E i \in 1..Len(Matching) : Matching[i].enrollment_state = "active")
              => Payload.enrollment_state = "active"
        /\ \E i \in 1..Len(Matching) :
              /\ Payload.enrollment_state = Matching[i].enrollment_state
              /\ Payload.course_end_at = OrNull(Matching[i].course.end_at)

\* an active enrollment ending earlier was chosen over an inactive one ending later
ActivePreferredWitness ==
    /\ GradesCalled /\ Len(Matching) = 2
    /\ \E i, j \in 1..2 :
          /\ Matching[i].enrollment_state = "active" /\ Matching[i].course.end_at = Date(1)
          /\ Matching[j].enrollment_state = "completed" /\ Matching[j].course.end_at = Date(2)
    /\ Payload.enrollment_state = "active" /\ Payload.course_end_at = Date(1)

\* the candidate set of the requested course in the list the upstream served
Candidates == CandidateEnrollments(Matching)

\* a ranks ahead of b: no end date before an end date, the later end date first,
\* and the higher id first when the end dates tie
RanksAhead(a, b) ==
    LET aEnd == a.course.end_at
        bEnd == b.course.end_at
    IN IF aEnd = Null /\ bEnd = Null THEN a.id > b.id
       ELSE IF aEnd = Null THEN TRUE
       ELSE IF bEnd = Null THEN FALSE
       ELSE IF aEnd.t # bEnd.t THEN aEnd.t > bEnd.t
       ELSE a.id > b.id

\* the candidate that ranks ahead of every other one
TopRanked ==
    CHOOSE i \in 1..Len(Candidates) :
        \A j \in 1..Len(Candidates) : j # i => RanksAhead(Candidates[i], Candidates[j])

\* C11: the selected enrollment is the first candidate under the order "no end
\* date first, then later end date, then higher id", whatever the order in which
\* the upstream listed the enrollments.
SelectionFollowsRanking ==
    (GradesCalled /\ Matching # <<>>) =>
        Payload = GradeSummary(call.args.course_id, Candidates[TopRanked])

\* two candidates with the same end date: the one the upstream listed first was
\* selected although the other has the higher id and different grade data
TieKeepsUpstreamOrder ==
    /\ GradesCalled /\ Len(Candidates) = 2
    /\ Candidates[1].course.end_at = Date(1) /\ Candidates[2].course.end_at = Date(1)
    /\ Candidates[1].id < Candidates[2].id
    /\ Payload = GradeSummary(call.args.course_id, Candidates[1])
    /\ Payload # GradeSummary(call.args.course_id, Candidates[2])

\* the enrollment getCourseGrades selected from the list the upstream served
Selected == SelectEnrollment(Matching)

\* v is a grade value: neither null nor omitted
GradeValue(v) == v # Null /\ v # Undef

\* one of the six grade fields of e holds a value
HoldsGrade(e) ==
    \/ GradeValue(GradeField(e, "current_score"))
    \/ GradeValue(GradeField(e, "current_grade"))
    \/ GradeValue(GradeField(e, "final_score"))
    \/ GradeValue(GradeField(e, "final_grade"))
    \/ GradeValue(e.g.computed_current_score)
    \/ GradeValue(e.g.computed_current_grade)

\* the current score the upstream reported: the one of the grades object, else
\* the computed one
ReportedCurrentScore(e) ==
    IF GradeValue(GradeField(e, "current_score")) THEN GradeField(e, "current_score")
    ELSE e.g.computed_current_score

\* C12: a selected enrollment holding a grade value in one of the six fields, the
\* value 0 included, is reported as available, and a score of 0 comes back as 0.
NullnessDecides ==
    (GradesCalled /\ Matching # <<>> /\ HoldsGrade(Selected)) =>
        /\ Payload.available = TRUE
        /\ ReportedCurrentScore(Selected) = Num(0) => Payload.current_score = Num(0)
        /\ GradeField(Selected, "final_score") = Num(0) => Payload.final_score = Num(0)

\* the only grade value of the selected enrollment is a computed current score
\* of 0, and the summary is available with a current score of 0
NullnessDecidesWitness ==
    /\ GradesCalled /\ Matching # <<>>
    /\ Selected.g.computed_current_score = Num(0)
    /\ Selected.g.computed_current_grade = Null
    /\ ~GradeValue(GradeField(Selected, "current_score"))
    /\ ~GradeValue(GradeField(Selected, "final_score"))
    /\ Payload.available = TRUE /\ Payload.current_score = Num(0)

\* C13: a selected enrollment with no grade value in any of the six fields (each
\* null or omitted, a missing grades object included) gives the no_grades_yet
\* result with the enrollment state, term id and course dates.
NoGradesYet ==
    (GradesCalled /\ Matching # <<>> /\ ~HoldsGrade(Selected)) =>
        Payload = [course_id |-> ToNumber(call.args.course_id), available |-> FALSE,
                   reason |-> "no_grades_yet",
                   enrollment_state |-> Selected.enrollment_state,
                   term_id |-> OrNull(Selected.g.enrollment_term_id),
                   course_start_at |-> OrNull(Selected.course.start_at),
                   course_end_at |-> OrNull(Selected.course.end_at)]

\* the selected enrollment has no grades object and omits the computed fields,
\* and the summary is available with every score and grade null
OmittedGradesReportedAvailable ==
    /\ GradesCalled /\ Matching # <<>>
    /\ Selected.g.grades = Undef
    /\ Selected.g.computed_current_score = Undef
    /\ Selected.g.computed_current_grade = Undef
    /\ Payload.available = TRUE
    /\ Payload.current_score = Null /\ Payload.current_grade = Null
    /\ Payload.final_score = Null /\ Payload.final_grade = Null

-----------------------------------------------------------------------------
(* Properties of the HTTP gate *)

\* a request has arrived and securityMiddleware has run on it
Screened == pc \notin {"idle", "security"} /\ req # NoRequest

HostOk == validateHost(req.host, env)
OriginOk == Falsy(req.origin) \/ validateOrigin(req.origin, env)

InvalidHost == Json(403, [error |-> "Forbidden: Invalid Host header"])
InvalidOrigin == Json(403, [error |-> "Forbidden: Invalid Origin"])
Unauthorized == Json(401, [error |-> "unauthorized"])

RECURSIVE ParseInt(_)
\* the number a string of decimal digits spells
ParseInt(digits) ==
    IF digits = "" THEN 0
    ELSE 10 * ParseInt(Slice(digits, 1, Len(digits) - 1))
           + (IndexFrom("0123456789", Char(digits, Len(digits)), 1) - 1)

IsOctet(part) ==
    /\ part # "" /\ Len(part) <= 3
    /\ \A i \in 1..Len(part) : IsDigit(Char(part, i))
    /\ ParseInt(part) <= 255

\* name is a dotted-quad IPv4 address in 10.0.0.0/8, 172.16.0.0/12 or 192.168.0.0/16
PrivateIPv4(name) ==
    LET parts == Split(name, ".")
    IN /\ Len(parts) = 4
       /\ \A i \in 1..4 : IsOctet(parts[i])
       /\ \/ ParseInt(parts[1]) = 10
          \/ ParseInt(parts[1]) = 172 /\ ParseInt(parts[2]) \in 16..31
          \/ ParseInt(parts[1]) = 192 /\ ParseInt(parts[2]) = 168

\* the Host values the gate is meant to admit: the name before the port is a
\* loopback name, a private IPv4 address or a .local name
LocalHost(host) ==
    /\ Truthy(host)
    /\ LET name == SplitFirst(host.s, ":")
       IN \/ name \in {"localhost", "127.0.0.1", "0.0.0.0"}
          \/ PrivateIPv4(name)
          \/ EndsWith(name, ".local")

\* C3: the Host check lets a request through only if the Host is localhost,
\* 127.0.0.1 or 0.0.0.0 (any port), a private IPv4 address or a .local name;
\* every other Host, a missing one included, is answered with 403.
HostCheckAdmitsOnlyLocal ==
    Screened => (~LocalHost(req.host) => (res = InvalidHost /\ pc = "replied"))

\* a public host name that begins with a private IPv4 literal passed the Host check
HostCheckBypassed ==
    /\ Screened /\ req.host = Str("10.0.0.1.evil.com") /\ "bearer" \in {checks[i] : i \in DOMAIN checks}

\* nothing of the protocol has happened for the request
NoProtocol ==
    /\ call = NoCall /\ outcome = None /\ reply = None
    /\ reqLog = <<>> /\ inflight = None
    /\ \A i \in DOMAIN checks : checks[i] \notin {"post", "negotiate", "tools/list", "tools/call"}
    /\ \A i \in DOMAIN logs : logs[i].level = "warn"

BearerOk ==
    \/ MCP_AUTH_TOKEN(env) = ""
    \/ /\ Truthy(req.authorization)
       /\ BearerMatch(Trim(req.authorization.s)) = MCP_AUTH_TOKEN(env)

WildcardPortMatch(origin, entry) ==
    /\ EndsWith(entry, ":*")
    /\ LET base == Slice(entry, 1, Len(entry) - 2)
           port == Slice(origin, Len(base) + 2, Len(origin))
       IN \/ origin = base
          \/ /\ StartsWith(origin, base \o ":")
             /\ port # "" /\ \A i \in 1..Len(port) : IsDigit(Char(port, i))

\* the Origin values the allow-list is meant to admit
ListedOrigin(origin, allowList) ==
    \E i \in DOMAIN allowList :
        origin = allowList[i] \/ WildcardPortMatch(origin, allowList[i])

\* C5: the Origin check passes every request without an Origin header and passes
\* one that carries an Origin exactly when the Origin equals an allow-list entry
\* or matches an entry with a wildcard port on scheme and host name; any other
\* Origin is answered with 403.
OriginCheckFollowsAllowList ==
    (Screened /\ HostOk) =>
        IF Falsy(req.origin) THEN res # InvalidOrigin
        ELSE (res # InvalidOrigin) <=> ListedOrigin(req.origin.s, ALLOWED_ORIGINS(env))

\* Origin http://localhost:3000 was rejected under the default allow-list
OriginCheckRejectsListed ==
    /\ Screened /\ HostOk /\ env = DefaultEnv
    /\ req.origin = Str("http://localhost:3000") /\ res = InvalidOrigin

\* mcpAuthMiddleware has run on the request
Authenticated == Screened /\ pc # "auth" /\ HostOk /\ OriginOk

\* the Authorization header is Bearer, white space and the token, nothing else
Presents(authorization, token) ==
    /\ Truthy(authorization)
    /\ LET h == Trim(authorization.s)
       IN /\ Len(h) >= 7 + Len(token)
          /\ ToLower(Slice(h, 1, 6)) = "bearer"
          /\ EndsWith(h, token)
          /\ \A i \in 7..(Len(h) - Len(token)) : Char(h, i) \in Whitespace

\* the request got past mcpAuthMiddleware, to the POST handler
Passed == pc = "post" \/ \E i \in DOMAIN checks : checks[i] = "post"
Compared == \E i \in DOMAIN checks : checks[i] = "compare"

\* C6: with a server token configured a request reaches protocol handling only
\* if its Authorization header is Bearer <token> with exactly the configured
\* token; a missing header, a non-Bearer header, a token of another length
\* (rejected on the length test, before any comparison of contents) and a token
\* of the same length but other content are answered with 401. Without a
\* configured token the bearer check lets every request through.
BearerGate ==
    Authenticated =>
        IF MCP_AUTH_TOKEN(env) = "" THEN Passed /\ res # Unauthorized /\ ~Compared
        ELSE /\ Passed <=> Presents(req.authorization, MCP_AUTH_TOKEN(env))
             /\ ~Passed => (res = Unauthorized /\ pc = "replied" /\ NoProtocol)
             /\ (Truthy(req.authorization) /\ BearerMatch(Trim(req.authorization.s)) # "") =>
                   (Compared <=> Len(BearerMatch(Trim(req.authorization.s)))
                                    = Len(MCP_AUTH_TOKEN(env)))
             /\ (Falsy(req.authorization) \/ BearerMatch(Trim(req.authorization.s)) = "")
                   => ~Compared

\* a token longer than the configured one was rejected on the length test
BearerGateWitness ==
    /\ Authenticated /\ MCP_AUTH_TOKEN(env) = "s3cret"
    /\ req.authorization = Str("Bearer s3cret2")
    /\ res = Unauthorized /\ ~Compared

\* the POST handler has taken up a request that carries a sessionId
Handled ==
    /\ \E i \in DOMAIN checks : checks[i] = "post"
    /\ req.sessionId.k = "str" /\ req.sessionId # Str("")

WellFormed(body) ==
    IF body.k # "obj" THEN FALSE
    ELSE body.jsonrpc = Str("2.0") /\ body.method.k = "str"

Dispatched == \E i \in DOMAIN checks : checks[i] \in {"tools/list", "tools/call"}

-----------------------------------------------------------------------------
(* Properties of the dispatch boundary *)

\* C7: every tool-level failure of a tools/call is answered with a JSON-RPC
\* result, never an error member, whose payload has isError true and a text that
\* carries the error's code in brackets before the message.
ToolErrorCarriesCode ==
    (pc = "replied" /\ call # NoCall /\ outcome.k = "throw") =>
        /\ reply.k = "result"
        /\ reply.result.isError
        /\ LET toks == reply.result.content[1].text.toks
           IN \E i \in DOMAIN toks : toks[i] = ErrorCode(outcome.err)

\* an unknown tool called over stdio was answered without the code invalid_tool
ToolErrorWithoutCode ==
    /\ pc = "replied" /\ call.transport = "stdio" /\ call.name = "no_such_tool"
    /\ outcome.k = "throw" /\ outcome.err.code = "invalid_tool"
    /\ reply.result.isError
    /\ reply.result.content[1].text.toks = <<"Error: ", "Unknown tool: no_such_tool">>

-----------------------------------------------------------------------------
(* Properties of the requests of a paginated fetch *)

\* the call's requests are those of one getWithPagination
PaginatedFetch == call.name \in Paginated \cup {"list_upcoming"}

\* the query of the URL has the parameter with the value
HasParam(url, key, value) == \E i \in 1..Len(url.q) : url.q[i] = <<key, value>>

\* the query of the first request: the caller's parameters, then per_page=100
CallerParams ==
    IF call.name = "list_assignments" THEN AssignmentsParams ELSE CoursesParams

\* C21: every request of a paginated fetch, the first and every follow-up taken
\* from a Link next URL, carries per_page=100, and the first has the caller's
\* parameters in front of it.
EveryRequestPerPage ==
    PaginatedFetch =>
        /\ \A i \in 1..Len(reqLog) : HasParam(reqLog[i].url, "per_page", "100")
        /\ reqLog # <<>> => reqLog[1].url.q = CallerParams \o <<<<"per_page", "100">>>>

\* a follow-up request went to a next URL that has no per_page parameter
FollowUpWithoutPerPage ==
    /\ PaginatedFetch /\ Len(reqLog) >= 2
    /\ reqLog[1].url.q = CallerParams \o <<<<"per_page", "100">>>>
    /\ reqLog[2].url \in LinkUrls
    /\ ~HasParam(reqLog[2].url, "per_page", "100")

\* the last page answered 2xx with a body that is not a list of items
UnexpectedBody ==
    /\ lastSettle.k = "response" /\ ~NonOk(lastSettle) /\ lastSettle.body # "list"

\* C22: a 2xx page whose body is not valid JSON, or is valid JSON that is not a
\* list (an object, null), makes a paginated fetch fail with code
\* invalid_response, and no items are returned.
InvalidBodyAborts ==
    (call.name \in Paginated /\ UnexpectedBody) =>
        /\ Over
        /\ outcome.k = "throw" /\ outcome.err.code = "invalid_response"

\* a page whose body was a JSON object made the fetch fail with a TypeError that
\* has no code
ObjectBodyNotInvalidResponse ==
    /\ call.name \in Paginated /\ Over
    /\ lastSettle.k = "response" /\ lastSettle.status = 200 /\ lastSettle.body = "object"
    /\ outcome = Thrown(NotIterable)
    /\ outcome.err.code = "" /\ outcome.err.name = "TypeError"

-----------------------------------------------------------------------------
(* Properties of the tool call log *)

\* the tool_call records written for the call
ToolCallRecords ==
    LET isToolCall(rec) == rec.event = "tool_call"
    IN SelectSeq(logs, isToolCall)

\* the configured secrets: the Canvas API token and, when one is set, the
\* server's auth token
Secrets == {ApiToken} \cup ({MCP_AUTH_TOKEN(env)} \ {""})

\* C23: every answered tools/call has written exactly one log record with the
\* tool name, the request id and a success flag that is false exactly when the
\* answer carries isError, then with the code shown in the answer's text; no
\* record holds the API token or the auth token.
OneLogRecordPerDispatch ==
    (pc = "replied" /\ call # NoCall) =>
        /\ Len(ToolCallRecords) = 1
        /\ LET rec == ToolCallRecords[1]
               isError == "isError" \in DOMAIN reply.result
           IN /\ rec.tool = call.name
              /\ rec.requestId = Coalesce(call.id, Null)
              /\ rec.success = ~isError
              /\ isError =>
                    \E i \in DOMAIN reply.result.content[1].text.toks :
                        reply.result.content[1].text.toks[i] = rec.code
              /\ {rec.level, rec.event, rec.tool, rec.code} \cap Secrets = {}

\* a tools/call over stdio was answered and no log record was written
StdioDispatchNotLogged ==
    /\ pc = "replied" /\ call.transport = "stdio" /\ call.name = "list_courses"
    /\ outcome.k = "return"
    /\ logs = <<>>

-----------------------------------------------------------------------------
(* Properties of the upstream traffic *)

\* C24: every request handed to the upstream is a GET, in every call of every
\* sequence of calls, and between two calls the client holds nothing it fetched:
\* each call starts from empty results.
ReadOnlyUpstream ==
    /\ inflight # None => inflight.method = "GET"
    /\ \A i \in 1..Len(reqLog) : reqLog[i].method = "GET"
    /\ pc \in {"idle", "dispatch"} =>
          /\ results = <<>> /\ nextUrl = Undef /\ frame = None /\ inflight = None
          /\ served = <<>> /\ courseLog = <<>>

\* list_upcoming is fetching the assignments of a course after the course
\* listing: every request so far was a GET
ReadOnlyUpstreamWitness ==
    /\ pc = "await" /\ frame.op = "listUpcoming" /\ frame.phase = "assignments"
    /\ reqLog # <<>> /\ reqLog[1].method = "GET"
    /\ inflight.method = "GET"
    /\ inflight.url.path = AssignmentsPath(Num(1))

-----------------------------------------------------------------------------
(* Properties of the session handling of app.post(BASE_PATH) *)

\* the steps the request went through include the step
Went(step) == \E i \in DOMAIN checks : checks[i] = step

\* the request presents a session identifier: a non-empty string
PresentsSession == req.sessionId.k = "str" /\ req.sessionId # Str("")

\* C25: a POST without a session identifier opens a streaming session and
\* dispatches nothing from its body; a POST with a session identifier opens no
\* session and gets exactly one JSON response: none while it is being handled,
\* one when it is over.
SessionRouting ==
    /\ (Went("post") /\ req.sessionId = Undef) =>
          /\ Went("negotiate") /\ ~Dispatched
          /\ res.status = 200 /\ res.body.k = "sse"
          /\ call = NoCall /\ reply = None
    /\ (Passed /\ PresentsSession) =>
          /\ ~Went("negotiate")
          /\ pc \in {"post", "dispatch", "await", "settled"} => res = None
          /\ pc = "replied" => (res # None /\ res.body.k # "sse" /\ res.body = reply)

\* a POST without sessionId whose body is a tools/call opened a session and the
\* call was not dispatched
SessionRoutingWitness ==
    /\ Went("post") /\ req.sessionId = Undef
    /\ req.body.k = "obj" /\ req.body.method = Str("tools/call")
    /\ pc = "replied" /\ res.body.k = "sse" /\ call = NoCall

-----------------------------------------------------------------------------
(* Properties of handleToolCall's argument and tool name tests *)

\* the arguments a tool requires
Required(name) ==
    CASE name \in {"list_assignments", "get_course_grades"} -> {"course_id"}
      [] name = "get_submission_status" -> {"course_id", "assignment_id"}
      [] OTHER -> {}

\* the call lacks an argument its tool requires
LacksRequired == \E f \in Required(call.name) : call.args[f] = Undef

\* the call failed with the code before any request to the upstream
RejectedEarly(code) ==
    /\ Over
    /\ outcome.k = "throw" /\ outcome.err.code = code
    /\ reqLog = <<>> /\ inflight = None /\ timers = 0

\* C26: a tools/call that lacks a required argument fails with invalid_arguments,
\* one that names a tool outside the catalog fails with invalid_tool, and neither
\* issues a request to the upstream.
EarlyRejection ==
    (call # NoCall /\ pc # "dispatch") =>
        /\ LacksRequired => RejectedEarly("invalid_arguments")
        /\ call.name \notin ToolCatalog => RejectedEarly("invalid_tool")

\* get_submission_status with a course_id and no assignment_id was answered with
\* invalid_arguments and nothing was requested
EarlyRejectionWitness ==
    /\ pc = "replied" /\ call.name = "get_submission_status"
    /\ call.args.course_id # Undef /\ call.args.assignment_id = Undef
    /\ RejectedEarly("invalid_arguments")

-----------------------------------------------------------------------------
(* Properties of the order of the upstream requests *)

\* C27: a tool call has at most one request in flight: one timer armed at most,
\* a page requested only once every earlier page was received, and in
\* list_upcoming the assignments of a course requested only once the listing of
\* every earlier course has finished or failed.
OneRequestInFlight ==
    /\ timers <= 1
    /\ inflight # None <=> pc = "await"
    /\ (pc = "await" /\ frame.op \in {"listCourses", "listAssignments"}) =>
          Len(reqLog) = Len(served) + 1
    /\ (pc = "await" /\ frame.op = "listUpcoming") =>
          IF frame.phase = "courses"
          THEN Len(reqLog) = Len(served) + 1 /\ courseLog = <<>>
          ELSE /\ Len(courseLog) = frame.idx - 1
               /\ \A k \in 1..Len(courseLog) : courseLog[k].course = frame.targets[k].id
               /\ frame.page = 0 =>
                     inflight.url.path = AssignmentsPath(Num(frame.targets[frame.idx].id))

\* list_upcoming is fetching the assignments of its second course after the
\* listing of the first course failed
OneRequestInFlightWitness ==
    /\ pc = "await" /\ frame.op = "listUpcoming" /\ frame.phase = "assignments"
    /\ frame.idx = 2 /\ Len(courseLog) = 1 /\ ~courseLog[1].ok
    /\ timers = 1 /\ inflight # None

\* C28: a presented session identifier is never checked against the sessions
\* the server opened: a POST with any non-empty sessionId string is handled as a
\* JSON-RPC request, a well-formed tools/list or tools/call in it dispatched,
\* whether or not a session was ever opened, and an empty sessionId opens a new
\* session as an absent one does.
SessionIdUnchecked ==
    Went("post") =>
        /\ PresentsSession =>
              /\ ~Went("negotiate")
              /\ res # None => res.status \in {200, 400}
              /\ (WellFormed(req.body)
                    /\ req.body.method \in {Str("tools/list"), Str("tools/call")})
                    => Dispatched
        /\ req.sessionId \in {Undef, Str("")} => (Went("negotiate") /\ opened)

\* a tools/list carrying sessionId s1 was answered with the catalog although the
\* server never opened a session
SessionIdUncheckedWitness ==
    /\ ~opened /\ req.sessionId = Str("s1")
    /\ Went("tools/list") /\ pc = "replied"
    /\ res.status = 200 /\ res.body.k = "result"

\* a POST with an empty sessionId opened a session
EmptySessionIdNegotiates ==
    /\ req.sessionId = Str("") /\ Went("negotiate") /\ opened /\ pc = "replied"

-----------------------------------------------------------------------------
(* Properties of the course listing of listUpcoming *)

\* the course listing of list_upcoming failed: its last request was rejected, or
\* answered with a non-2xx status or with a body that is no list
CourseListingFailed ==
    /\ call.name = "list_upcoming"
    /\ lastSettle.k = "throw" \/ NonOk(lastSettle)
         \/ (lastSettle.k = "response" /\ lastSettle.body # "list")

\* C29: when the course listing of list_upcoming fails, list_upcoming fails with
\* that error: no assignments are requested for any course and no list, empty
\* or partial, is returned.
CourseListingFailureFails ==
    CourseListingFailed =>
        /\ Over
        /\ outcome.k = "throw"
        /\ lastSettle.k = "throw" => outcome.err = lastSettle.err
        /\ NonOk(lastSettle) => outcome.err.code = "canvas_api_error"
        /\ (lastSettle.k = "response" /\ lastSettle.body = "badjson")
              => outcome.err.code = "invalid_response"
        /\ courseLog = <<>>
        /\ Len(reqLog) = Len(served) + 1
        /\ inflight = None

\* the second page of the course listing timed out after a first page with a
\* course: list_upcoming failed with the timeout error
CourseListingFailureFailsWitness ==
    /\ CourseListingFailed /\ pc = "replied"
    /\ lastSettle = Thrown(TimeoutError)
    /\ Len(served) = 1 /\ Len(served[1].items) > 0
    /\ outcome.err.code = "timeout" /\ courseLog = <<>>

-----------------------------------------------------------------------------
(* Properties of the credentials of a paginated fetch *)

\* the request carries the API token as a bearer credential
Authorized(request) == request.headers.Authorization = <<"Bearer", ApiToken>>

\* C30: every request of a paginated fetch carries the Authorization bearer
\* token, the follow-up requests included: a follow-up goes to the URL the Link
\* header names as next, whatever its host is, and a page that names a next URL
\* is always followed by a request.
TokenFollowsLink ==
    PaginatedFetch =>
        /\ \A i \in 1..Len(reqLog) : Authorized(reqLog[i])
        /\ inflight # None => Authorized(inflight)
        /\ \A i \in 2..Len(reqLog) : reqLog[i].url \in LinkUrls
        /\ \A i \in 1..Len(served) : served[i].adv => Len(reqLog) > i
        /\ (inflight # None /\ nextUrl # Undef) => inflight.url = nextUrl

\* a follow-up request carried the API token to a host that is not the base
\* URL's
TokenFollowsLinkWitness ==
    /\ PaginatedFetch /\ Len(reqLog) >= 2
    /\ reqLog[1].url.host = BaseHost
    /\ reqLog[2].url.host = "other.host"
    /\ Authorized(reqLog[2])
    /\ served # <<>> /\ served[1].adv

====
